---- MODULE Spec2Model ----
(***************************************************************************)
(* dbml-pg: the DBML grammar (dbml.ohm), its semantic actions              *)
(* (semantics.ts) and the Parser facade (parser.ts) as a state machine.    *)
(*                                                                         *)
(* Text is a sequence of one-character strings.  A match of text s at      *)
(* position p (1-based) yields [ok, pos, v]: success flag, position after  *)
(* the match, and the value the semantic action returns.  Lexical rules    *)
(* are operators R(s, p); the syntactic rules (capitalised in dbml.ohm)    *)
(* are parsing expressions named after the rule, which the matching engine *)
(* evaluates: it skips `space*` before every terminal and every rule       *)
(* application in their body.                                              *)
(*                                                                         *)
(* JavaScript values that may be of several dynamic types are wrapped:     *)
(* [str |-> "x"], [num |-> ...], [bool |-> TRUE], [fn |-> "toString"],     *)
(* [undef |-> TRUE]; records with different fields are unequal.            *)
(***************************************************************************)
EXTENDS Integers, Sequences, FiniteSets, TLC

VARIABLES options, typeMappings, strict, written, input, failOffset, parsed, validated,
          formatted, again

vars == <<options, typeMappings, strict, written, input, failOffset, parsed, validated,
          formatted, again>>

(***************************************************************************)
(* JavaScript values                                                       *)
(***************************************************************************)
Str(x) == [str |-> x]
Bool(b) == [bool |-> b]
Undefined == [undef |-> TRUE]

RECURSIVE Join(_)
Join(q) == IF q = <<>> THEN "" ELSE Head(q) \o Join(Tail(q))

(* Object.assign(target, source): own keys of source overwrite target. *)
ObjectAssign(target, source) == source @@ target

(***************************************************************************)
(* Match results and characters                                            *)
(***************************************************************************)
Ok(p, v) == [ok |-> TRUE, pos |-> p, v |-> v]
Fail == [ok |-> FALSE, pos |-> 0, v |-> <<>>]

UpperToLower ==
  [A |-> "a", B |-> "b", C |-> "c", D |-> "d", E |-> "e", F |-> "f",
   G |-> "g", H |-> "h", I |-> "i", J |-> "j", K |-> "k", L |-> "l",
   M |-> "m", N |-> "n", O |-> "o", P |-> "p", Q |-> "q", R |-> "r",
   S |-> "s", T |-> "t", U |-> "u", V |-> "v", W |-> "w", X |-> "x",
   Y |-> "y", Z |-> "z"]

toLowerCase(c) == IF c \in DOMAIN UpperToLower THEN UpperToLower[c] ELSE c

lower == {UpperToLower[c] : c \in DOMAIN UpperToLower}
upper == DOMAIN UpperToLower
letter == lower \cup upper
digit == {"0", "1", "2", "3", "4", "5", "6", "7", "8", "9"}
hexDigit == digit \cup {"a", "b", "c", "d", "e", "f", "A", "B", "C", "D", "E", "F"}
identStart == letter \cup {"_"}
identPart == letter \cup digit \cup {"_"}

(* Built-in rule space: any character up to and including " ". *)
spaceChar == {" ", "\n", "\r", "\t"}

(* The backtick character (U+0060), which a TLA+ string cannot hold. *)
backtick == "<backtick>"

At(s, p) == IF p >= 1 /\ p <= Len(s) THEN s[p] ELSE ""

(* A terminal "w": exact match of the characters w at p. *)
terminal(s, p, w) ==
  IF p + Len(w) - 1 <= Len(s) /\ \A i \in 1..Len(w) : s[p + i - 1] = w[i]
  THEN Ok(p + Len(w), w)
  ELSE Fail

(* a keyword matched as the plain terminal "w" *)
caseInsensitive_exact(s, p, w) == terminal(s, p, w)

(* caseInsensitive<"w">: w is lower case; no word boundary is required. *)
caseInsensitive(s, p, w) ==
  IF p + Len(w) - 1 <= Len(s) /\ \A i \in 1..Len(w) : toLowerCase(s[p + i - 1]) = w[i]
  THEN Ok(p + Len(w), SubSeq(s, p, p + Len(w) - 1))
  ELSE Fail

(* First position q >= p with s[q] in stop, or Len(s) + 1. *)
RECURSIVE ScanTo(_, _, _)
ScanTo(s, p, stop) ==
  IF p > Len(s) \/ s[p] \in stop THEN p ELSE ScanTo(s, p + 1, stop)

(* First position q >= p where the terminal w starts, or 0 when none. *)
RECURSIVE FindTerminal(_, _, _)
FindTerminal(s, p, w) ==
  IF p + Len(w) - 1 > Len(s) THEN 0
  ELSE IF terminal(s, p, w).ok THEN p
  ELSE FindTerminal(s, p + 1, w)

(***************************************************************************)
(* Whitespace and comments (dbml.ohm 270-277)                              *)
(***************************************************************************)
newline(s, p) ==
  IF At(s, p) = "\n" THEN Ok(p + 1, "\n")
  ELSE IF At(s, p) = "\r" THEN Ok(p + 1, "\r")
  ELSE Fail

comment(s, p) ==
  IF terminal(s, p, <<"/", "/">>).ok
  THEN LET e == ScanTo(s, p + 2, {"\n", "\r"})
           n == newline(s, e)
       IN Ok(IF n.ok THEN n.pos ELSE e, <<>>)
  ELSE IF terminal(s, p, <<"/", "*">>).ok
  THEN LET e == FindTerminal(s, p + 2, <<"*", "/">>)
       IN IF e = 0 THEN Fail ELSE Ok(e + 2, <<>>)
  ELSE Fail

(* space += comment *)
space(s, p) ==
  IF At(s, p) \in spaceChar THEN Ok(p + 1, <<>>) ELSE comment(s, p)

(* The implicit space* the engine skips in a syntactic rule. *)
RECURSIVE skipSpaces(_, _)
skipSpaces(s, p) ==
  LET r == space(s, p) IN IF r.ok THEN skipSpaces(s, r.pos) ELSE p

(* A terminal inside a syntactic rule. *)
T(s, p, w) == terminal(s, skipSpaces(s, p), w)

(***************************************************************************)
(* Keywords (dbml.ohm 199-266): each is caseInsensitive<"...">.             *)
(***************************************************************************)
kw_project(s, p) == caseInsensitive(s, p, <<"p", "r", "o", "j", "e", "c", "t">>)
kw_table(s, p) == caseInsensitive(s, p, <<"t", "a", "b", "l", "e">>)
kw_tablepartial(s, p) == caseInsensitive(s, p, <<"t", "a", "b", "l", "e", "p", "a", "r", "t", "i", "a", "l">>)
kw_ref(s, p) == caseInsensitive(s, p, <<"r", "e", "f">>)
kw_enum(s, p) == caseInsensitive(s, p, <<"e", "n", "u", "m">>)
kw_tablegroup(s, p) == caseInsensitive(s, p, <<"t", "a", "b", "l", "e", "g", "r", "o", "u", "p">>)
kw_indexes(s, p) == caseInsensitive(s, p, <<"i", "n", "d", "e", "x", "e", "s">>)
kw_note(s, p) == caseInsensitive(s, p, <<"n", "o", "t", "e">>)
kw_headercolor(s, p) == caseInsensitive(s, p, <<"h", "e", "a", "d", "e", "r", "c", "o", "l", "o", "r">>)
kw_as(s, p) == caseInsensitive(s, p, <<"a", "s">>)
kw_type(s, p) == caseInsensitive(s, p, <<"t", "y", "p", "e">>)
kw_name(s, p) == caseInsensitive(s, p, <<"n", "a", "m", "e">>)
kw_where(s, p) == caseInsensitive(s, p, <<"w", "h", "e", "r", "e">>)
kw_default(s, p) == caseInsensitive(s, p, <<"d", "e", "f", "a", "u", "l", "t">>)
kw_not(s, p) == caseInsensitive(s, p, <<"n", "o", "t">>)
kw_null(s, p) == caseInsensitive(s, p, <<"n", "u", "l", "l">>)
kw_primary(s, p) == caseInsensitive(s, p, <<"p", "r", "i", "m", "a", "r", "y">>)
kw_key(s, p) == caseInsensitive(s, p, <<"k", "e", "y">>)
kw_delete(s, p) == caseInsensitive(s, p, <<"d", "e", "l", "e", "t", "e">>)
kw_update(s, p) == caseInsensitive(s, p, <<"u", "p", "d", "a", "t", "e">>)
kw_set(s, p) == caseInsensitive(s, p, <<"s", "e", "t">>)
kw_no(s, p) == caseInsensitive(s, p, <<"n", "o">>)
kw_action(s, p) == caseInsensitive(s, p, <<"a", "c", "t", "i", "o", "n">>)
kw_true(s, p) == caseInsensitive(s, p, <<"t", "r", "u", "e">>)
kw_false(s, p) == caseInsensitive(s, p, <<"f", "a", "l", "s", "e">>)
kw_pk(s, p) == caseInsensitive(s, p, <<"p", "k">>)
kw_unique(s, p) == caseInsensitive(s, p, <<"u", "n", "i", "q", "u", "e">>)
kw_increment(s, p) == caseInsensitive(s, p, <<"i", "n", "c", "r", "e", "m", "e", "n", "t">>)
kw_asc(s, p) == caseInsensitive(s, p, <<"a", "s", "c">>)
kw_desc(s, p) == caseInsensitive(s, p, <<"d", "e", "s", "c">>)
kw_btree(s, p) == caseInsensitive(s, p, <<"b", "t", "r", "e", "e">>)
kw_hash(s, p) == caseInsensitive(s, p, <<"h", "a", "s", "h">>)
kw_gin(s, p) == caseInsensitive(s, p, <<"g", "i", "n">>)
kw_gist(s, p) == caseInsensitive(s, p, <<"g", "i", "s", "t">>)
kw_spgist(s, p) == caseInsensitive(s, p, <<"s", "p", "g", "i", "s", "t">>)
kw_brin(s, p) == caseInsensitive(s, p, <<"b", "r", "i", "n">>)
kw_cascade(s, p) == caseInsensitive(s, p, <<"c", "a", "s", "c", "a", "d", "e">>)
kw_restrict(s, p) == caseInsensitive(s, p, <<"r", "e", "s", "t", "r", "i", "c", "t">>)
kw_generated(s, p) == caseInsensitive(s, p, <<"g", "e", "n", "e", "r", "a", "t", "e", "d">>)
kw_always(s, p) == caseInsensitive(s, p, <<"a", "l", "w", "a", "y", "s">>)
kw_by(s, p) == caseInsensitive(s, p, <<"b", "y">>)
kw_identity(s, p) == caseInsensitive(s, p, <<"i", "d", "e", "n", "t", "i", "t", "y">>)
kw_stored(s, p) == caseInsensitive(s, p, <<"s", "t", "o", "r", "e", "d">>)
kw_check(s, p) == caseInsensitive(s, p, <<"c", "h", "e", "c", "k">>)
kw_constraints(s, p) == caseInsensitive(s, p, <<"c", "o", "n", "s", "t", "r", "a", "i", "n", "t", "s">>)
kw_constraint(s, p) == caseInsensitive(s, p, <<"c", "o", "n", "s", "t", "r", "a", "i", "n", "t">>)
kw_exclude(s, p) == caseInsensitive(s, p, <<"e", "x", "c", "l", "u", "d", "e">>)
kw_using(s, p) == caseInsensitive(s, p, <<"u", "s", "i", "n", "g">>)
kw_with(s, p) == caseInsensitive(s, p, <<"w", "i", "t", "h">>)
kw_deferrable(s, p) == caseInsensitive(s, p, <<"d", "e", "f", "e", "r", "r", "a", "b", "l", "e">>)
kw_initially(s, p) == caseInsensitive(s, p, <<"i", "n", "i", "t", "i", "a", "l", "l", "y">>)
kw_deferred(s, p) == caseInsensitive(s, p, <<"d", "e", "f", "e", "r", "r", "e", "d">>)
kw_immediate(s, p) == caseInsensitive(s, p, <<"i", "m", "m", "e", "d", "i", "a", "t", "e">>)

(***************************************************************************)
(* Identifiers (dbml.ohm 190-197; semantics.ts 769-779)                    *)
(***************************************************************************)
(* the reserved words extended by the words type, name and note *)
reservedWord_settingWords(s, p) ==
  LET k == IF kw_project(s, p).ok THEN kw_project(s, p)
           ELSE IF kw_table(s, p).ok THEN kw_table(s, p)
           ELSE IF kw_tablepartial(s, p).ok THEN kw_tablepartial(s, p)
           ELSE IF kw_ref(s, p).ok THEN kw_ref(s, p)
           ELSE IF kw_enum(s, p).ok THEN kw_enum(s, p)
           ELSE IF kw_tablegroup(s, p).ok THEN kw_tablegroup(s, p)
           ELSE IF kw_indexes(s, p).ok THEN kw_indexes(s, p)
           ELSE IF kw_constraints(s, p).ok THEN kw_constraints(s, p)
           ELSE IF kw_type(s, p).ok THEN kw_type(s, p)
           ELSE IF kw_name(s, p).ok THEN kw_name(s, p)
           ELSE kw_note(s, p)
  IN IF k.ok /\ At(s, k.pos) \notin identPart THEN Ok(k.pos, <<>>) ELSE Fail

(* reservedWord = (project | table | tablepartial | ref | enum | tablegroup
                   | indexes | constraints) ~(letter | digit | "_")
   The alternation commits to its first matching keyword. *)
reservedWord(s, p) ==
  LET k == IF kw_project(s, p).ok THEN kw_project(s, p)
           ELSE IF kw_table(s, p).ok THEN kw_table(s, p)
           ELSE IF kw_tablepartial(s, p).ok THEN kw_tablepartial(s, p)
           ELSE IF kw_ref(s, p).ok THEN kw_ref(s, p)
           ELSE IF kw_enum(s, p).ok THEN kw_enum(s, p)
           ELSE IF kw_tablegroup(s, p).ok THEN kw_tablegroup(s, p)
           ELSE IF kw_indexes(s, p).ok THEN kw_indexes(s, p)
           ELSE kw_constraints(s, p)
  IN IF k.ok /\ At(s, k.pos) \notin identPart THEN Ok(k.pos, <<>>) ELSE Fail

(* End of the run of characters of set cs that starts at p. *)
RECURSIVE RunEnd(_, _, _)
RunEnd(s, p, cs) ==
  IF p <= Len(s) /\ s[p] \in cs THEN RunEnd(s, p + 1, cs) ELSE p

(* identifierName = ~reservedWord (letter | "_") (letter | digit | "_")*
   toAST: this.sourceString *)
identifierName(s, p) ==
  IF ~reservedWord(s, p).ok /\ At(s, p) \in identStart
  THEN LET e == RunEnd(s, p + 1, identPart)
       IN Ok(e, Join(SubSeq(s, p, e - 1)))
  ELSE Fail

(* quotedIdentifier = "\"" (~"\"" any)* "\""   toAST: chars.sourceString *)
quotedIdentifier(s, p) ==
  IF At(s, p) = "\""
  THEN LET e == ScanTo(s, p + 1, {"\""})
       IN IF e <= Len(s) THEN Ok(e + 1, Join(SubSeq(s, p + 1, e - 1))) ELSE Fail
  ELSE Fail

(* identifier = quotedIdentifier | identifierName *)
identifier(s, p) ==
  LET q == quotedIdentifier(s, p) IN IF q.ok THEN q ELSE identifierName(s, p)

(***************************************************************************)
(* Values (dbml.ohm 167-187; semantics.ts 713-767)                         *)
(***************************************************************************)
(* tripleString = "'''" (~"'''" any)* "'''"   toAST: chars.sourceString *)
tripleString(s, p) ==
  LET q == <<"'", "'", "'">> IN
  IF terminal(s, p, q).ok
  THEN LET e == FindTerminal(s, p + 3, q)
       IN IF e = 0 THEN Fail ELSE Ok(e + 3, Join(SubSeq(s, p + 3, e - 1)))
  ELSE Fail

(* the escape action leaving the backslash before a character that has no
   escape meaning *)
StringChar_escape_keepBackslash(c, q) ==
  IF c = q THEN q
  ELSE IF c = "\\" THEN "\\"
  ELSE IF c = "n" THEN "\n"
  ELSE IF c = "r" THEN "\r"
  ELSE IF c = "t" THEN "\t"
  ELSE "\\" \o c

(* doubleStringChar_escape / singleStringChar_escape, with quote q *)
StringChar_escape(c, q) ==
  IF c = q THEN q
  ELSE IF c = "\\" THEN "\\"
  ELSE IF c = "n" THEN "\n"
  ELSE IF c = "r" THEN "\r"
  ELSE IF c = "t" THEN "\t"
  ELSE c

(* stringChar* for quote q: "\\" any -- escape | ~(q | "\\") any -- normal
   v is the joined toAST of the characters matched so far. *)
RECURSIVE StringChars(_, _, _)
StringChars(s, p, q) ==
  IF At(s, p) = "\\" /\ p + 1 <= Len(s)
  THEN LET t == StringChars(s, p + 2, q)
       IN Ok(t.pos, StringChar_escape(s[p + 1], q) \o t.v)
  ELSE IF p <= Len(s) /\ s[p] # q /\ s[p] # "\\"
  THEN LET t == StringChars(s, p + 1, q) IN Ok(t.pos, s[p] \o t.v)
  ELSE Ok(p, "")

(* doubleString = "\"" doubleStringChar* "\"" *)
doubleString(s, p) ==
  IF At(s, p) = "\""
  THEN LET c == StringChars(s, p + 1, "\"")
       IN IF At(s, c.pos) = "\"" THEN Ok(c.pos + 1, c.v) ELSE Fail
  ELSE Fail

(* singleString = "'" singleStringChar* "'" *)
singleString(s, p) ==
  IF At(s, p) = "'"
  THEN LET c == StringChars(s, p + 1, "'")
       IN IF At(s, c.pos) = "'" THEN Ok(c.pos + 1, c.v) ELSE Fail
  ELSE Fail

(* backtickString: backtick, any characters but a backtick, backtick.
   v is sourceString.slice(1, -1), as every caller takes it. *)
backtickString(s, p) ==
  IF At(s, p) = backtick
  THEN LET e == ScanTo(s, p + 1, {backtick})
       IN IF e <= Len(s) THEN Ok(e + 1, Join(SubSeq(s, p + 1, e - 1))) ELSE Fail
  ELSE Fail

Digits == <<"0", "1", "2", "3", "4", "5", "6", "7", "8", "9">>
DigitValue(c) == (CHOOSE i \in 1..10 : Digits[i] = c) - 1

RECURSIVE DigitsToNat(_)
DigitsToNat(q) ==
  IF q = <<>> THEN 0 ELSE 10 * DigitsToNat(SubSeq(q, 1, Len(q) - 1)) + DigitValue(q[Len(q)])

RECURSIVE StripTrailingZeros(_)
StripTrailingZeros(q) ==
  IF q # <<>> /\ q[Len(q)] = "0" THEN StripTrailingZeros(SubSeq(q, 1, Len(q) - 1)) ELSE q

(* parseFloat of a text matched by number: sign, integer part and the
   fraction digits without trailing zeros identify the number. *)
parseFloat(neg, int, frac) ==
  [num |-> [neg |-> neg, int |-> DigitsToNat(int), frac |-> Join(StripTrailingZeros(frac))]]

(* number = "-"? digit+ ("." digit+)?   toAST: parseFloat(this.sourceString) *)
number(s, p) ==
  LET neg == At(s, p) = "-"
      i == IF neg THEN p + 1 ELSE p
      e == RunEnd(s, i, digit)
      f == IF At(s, e) = "." THEN RunEnd(s, e + 1, digit) ELSE e
  IN IF e > i
     THEN IF f > e + 1
          THEN Ok(f, parseFloat(neg, SubSeq(s, i, e - 1), SubSeq(s, e + 1, f - 1)))
          ELSE Ok(e, parseFloat(neg, SubSeq(s, i, e - 1), <<>>))
     ELSE Fail

(* boolean = true -- true | false -- false *)
boolean(s, p) ==
  IF kw_true(s, p).ok THEN Ok(kw_true(s, p).pos, Bool(TRUE))
  ELSE IF kw_false(s, p).ok THEN Ok(kw_false(s, p).pos, Bool(FALSE))
  ELSE Fail

(* Value = tripleString | doubleString | singleString | number | boolean
         | identifier *)
Value(s, p0) ==
  LET p == skipSpaces(s, p0)
      t == tripleString(s, p)
      d == doubleString(s, p)
      q == singleString(s, p)
      n == number(s, p)
      b == boolean(s, p)
      i == identifier(s, p)
  IN IF t.ok THEN Ok(t.pos, Str(t.v))
     ELSE IF d.ok THEN Ok(d.pos, Str(d.v))
     ELSE IF q.ok THEN Ok(q.pos, Str(q.v))
     ELSE IF n.ok THEN n
     ELSE IF b.ok THEN b
     ELSE IF i.ok THEN Ok(i.pos, Str(i.v))
     ELSE Fail


(***************************************************************************)
(* Rules of the syntactic part that consume raw characters                 *)
(* (dbml.ohm 50, 119, 164)                                                 *)
(***************************************************************************)
(* (~")" any)+ of the syntactic rule TypeParams: spaces are skipped before
   the lookahead terminal and before any.  Yields the position after the
   last character taken, or 0 when none can be taken at p. *)
RECURSIVE TypeParamsEnd(_, _)
TypeParamsEnd(s, p) ==
  LET q == skipSpaces(s, p)
  IN IF q > Len(s) \/ s[q] = ")" THEN 0
     ELSE LET e == TypeParamsEnd(s, q + 1) IN IF e = 0 THEN q + 1 ELSE e

(* TypeParams = (~")" any)+    v: the node's sourceString *)
TypeParams(s, p) ==
  LET q == skipSpaces(s, p)
      e == TypeParamsEnd(s, q)
  IN IF e = 0 THEN Fail ELSE Ok(e, Join(SubSeq(s, q, e - 1)))

(* any+ in the syntactic rule ExcludeOperator: takes every character that
   is left after skipping spaces; yields the end position, 0 when none. *)
RECURSIVE AnyPlusEnd(_, _)
AnyPlusEnd(s, p) ==
  LET q == skipSpaces(s, p)
  IN IF q > Len(s) THEN 0
     ELSE LET e == AnyPlusEnd(s, q + 1) IN IF e = 0 THEN q + 1 ELSE e

ExcludeOperators ==
  <<  <<"&", "&">>, <<"=">>, <<"<", ">">>, <<"@", ">">>, <<"<", "@">>,
      <<"|", "|">>, <<"-", "|", "-">>, <<"~">>  >>

(* ExcludeOperator = "&&" | "=" | "<>" | "@>" | "<@" | "||" | "-|-" | "~"
                   | any+      v: the node's sourceString *)
ExcludeOperator(s, p0) ==
  LET p == skipSpaces(s, p0)
      hits == {i \in 1..Len(ExcludeOperators) : terminal(s, p, ExcludeOperators[i]).ok}
      first == CHOOSE i \in hits : \A j \in hits : i <= j
      e == AnyPlusEnd(s, p)
  IN IF hits # {} THEN Ok(p + Len(ExcludeOperators[first]), Join(ExcludeOperators[first]))
     ELSE IF e # 0 THEN Ok(e, Join(SubSeq(s, p, e - 1)))
     ELSE Fail

(* n hexDigit applications in a syntactic rule *)
RECURSIVE HexDigits(_, _, _)
HexDigits(s, p, n) ==
  IF n = 0 THEN Ok(p, <<>>)
  ELSE LET q == skipSpaces(s, p)
       IN IF At(s, q) \in hexDigit THEN HexDigits(s, q + 1, n - 1) ELSE Fail

(* HexColor = "#" hexDigit hexDigit hexDigit hexDigit hexDigit hexDigit
   toAST: this.sourceString *)
HexColor(s, p) ==
  LET h == T(s, p, <<"#">>)
      d == IF h.ok THEN HexDigits(s, h.pos, 6) ELSE Fail
  IN IF d.ok THEN Ok(d.pos, Str(Join(SubSeq(s, skipSpaces(s, p), d.pos - 1)))) ELSE Fail

(***************************************************************************)
(* The syntactic rules (dbml.ohm 3-162) as parsing expressions.  A case    *)
(* `body -- name` of a rule R is the expression Case("R_name", body): the  *)
(* engine makes it a rule of its own, with its own semantic action.        *)
(***************************************************************************)
Lit(w) == [op |-> "terminal", w |-> w]
App(R) == [op |-> "apply", rule |-> R]
Cat(xs) == [op |-> "seq", xs |-> xs]
Alt(xs) == [op |-> "alt", xs |-> xs]
Case(R, x) == [op |-> "case", rule |-> R, x |-> x]
Opt(x) == [op |-> "opt", x |-> x]
Star(x) == [op |-> "star", x |-> x]
ListOf(x) == [op |-> "listOf", x |-> x]

Schema == Star(App("Element"))

Element ==
  Alt(<<App("Project"), App("Table"), App("TablePartial"), App("Ref"), App("Enum"),
        App("TableGroup")>>)

Project ==
  Cat(<<App("project"), App("identifier"), Lit(<<"{">>), App("ProjectBody"), Lit(<<"}">>)>>)

ProjectBody == Star(App("ProjectProperty"))

ProjectProperty == Cat(<<App("identifier"), Lit(<<":">>), App("Value")>>)

Table ==
  Cat(<<App("table"), App("QualifiedIdentifier"), Opt(App("TableAlias")), Lit(<<"{">>),
        App("TableBody"), Lit(<<"}">>)>>)

QualifiedIdentifier ==
  Alt(<<Case("QualifiedIdentifier_qualified",
             Cat(<<App("identifier"), Lit(<<".">>), App("identifier")>>)),
        Case("QualifiedIdentifier_simple", Cat(<<App("identifier")>>))>>)

TableAlias == Cat(<<App("as"), App("identifier")>>)

TableBody == Star(App("TableElement"))

TableElement ==
  Alt(<<App("Column"), App("Indexes"), App("Constraints"), App("Note"), App("HeaderColor"),
        App("PartialReference")>>)

TablePartial ==
  Cat(<<App("tablepartial"), App("identifier"), Lit(<<"{">>), App("TablePartialBody"),
        Lit(<<"}">>)>>)

TablePartialBody == Star(App("TablePartialElement"))

TablePartialElement ==
  Alt(<<App("Column"), App("Indexes"), App("Constraints"), App("Note")>>)

PartialReference == Cat(<<Lit(<<"~">>), App("identifier")>>)

Column == Cat(<<App("identifier"), App("DataType"), Opt(App("ColumnSettings"))>>)

DataType ==
  Alt(<<Case("DataType_array", Cat(<<App("identifier"), Lit(<<"[", "]">>)>>)),
        Case("DataType_parameterized",
             Cat(<<App("identifier"), Lit(<<"(">>), App("TypeParams"), Lit(<<")">>)>>)),
        Case("DataType_simple", Cat(<<App("identifier")>>))>>)

ColumnSettings == Cat(<<Lit(<<"[">>), ListOf(App("ColumnSetting")), Lit(<<"]">>)>>)

ColumnSetting ==
  Alt(<<Case("ColumnSetting_pk", Cat(<<App("pk")>>)),
        Case("ColumnSetting_primaryKey", Cat(<<App("primary"), App("key")>>)),
        Case("ColumnSetting_unique", Cat(<<App("unique")>>)),
        Case("ColumnSetting_notNull", Cat(<<App("not"), App("null")>>)),
        Case("ColumnSetting_null", Cat(<<App("null")>>)),
        Case("ColumnSetting_increment", Cat(<<App("increment")>>)),
        Case("ColumnSetting_identityAlways",
             Cat(<<App("generated"), App("always"), App("as"), App("identity")>>)),
        Case("ColumnSetting_identityByDefault",
             Cat(<<App("generated"), App("by"), App("default"), App("as"), App("identity")>>)),
        Case("ColumnSetting_generatedStored",
             Cat(<<App("generated"), App("always"), App("as"), App("backtickString"),
                   App("stored")>>)),
        Case("ColumnSetting_check", Cat(<<App("check"), App("backtickString")>>)),
        App("ColumnDefault"), App("ColumnNote"), App("ColumnRef")>>)

ColumnDefault == Cat(<<App("default"), Lit(<<":">>), App("DefaultValue")>>)

ColumnNote == Cat(<<App("note"), Lit(<<":">>), App("Value")>>)

ColumnRef == Cat(<<App("ref"), Lit(<<":">>), App("RefType"), App("RefEndpoint")>>)

DefaultValue ==
  Alt(<<Case("DefaultValue_expression", Cat(<<App("backtickString")>>)),
        Case("DefaultValue_literal", Cat(<<App("Value")>>))>>)

Indexes == Cat(<<App("indexes"), Lit(<<"{">>), Star(App("Index")), Lit(<<"}">>)>>)

Index ==
  Alt(<<Case("Index_composite",
             Cat(<<Lit(<<"(">>), ListOf(App("IndexColumn")), Lit(<<")">>),
                   Opt(App("IndexSettings"))>>)),
        Case("Index_single", Cat(<<App("identifier"), Opt(App("IndexSettings"))>>))>>)

IndexColumn == Cat(<<App("identifier"), Opt(App("SortOrder"))>>)

SortOrder ==
  Alt(<<Case("SortOrder_asc", Cat(<<App("asc")>>)),
        Case("SortOrder_desc", Cat(<<App("desc")>>))>>)

IndexSettings == Cat(<<Lit(<<"[">>), ListOf(App("IndexSetting")), Lit(<<"]">>)>>)

IndexSetting ==
  Alt(<<App("IndexType"), App("IndexName"), App("IndexWhere"),
        Case("IndexSetting_pk", Cat(<<App("pk")>>)),
        Case("IndexSetting_unique", Cat(<<App("unique")>>))>>)

IndexType == Cat(<<App("type"), Lit(<<":">>), App("IndexTypeName")>>)

IndexName == Cat(<<App("name"), Lit(<<":">>), App("Value")>>)

IndexWhere == Cat(<<App("where"), Lit(<<":">>), App("Value")>>)

IndexTypeName ==
  Alt(<<Case("IndexTypeName_btree", Cat(<<App("btree")>>)),
        Case("IndexTypeName_hash", Cat(<<App("hash")>>)),
        Case("IndexTypeName_gin", Cat(<<App("gin")>>)),
        Case("IndexTypeName_gist", Cat(<<App("gist")>>)),
        Case("IndexTypeName_spgist", Cat(<<App("spgist")>>)),
        Case("IndexTypeName_brin", Cat(<<App("brin")>>)),
        Case("IndexTypeName_custom", Cat(<<App("identifier")>>))>>)

Constraints ==
  Cat(<<App("constraints"), Lit(<<"{">>), Star(App("Constraint")), Lit(<<"}">>)>>)

Constraint ==
  Cat(<<Opt(App("ConstraintName")), App("ConstraintType"), Opt(App("ConstraintSettings"))>>)

ConstraintName == Cat(<<App("constraint"), App("identifier")>>)

ConstraintType ==
  Alt(<<Case("ConstraintType_check", Cat(<<App("check"), App("backtickString")>>)),
        Case("ConstraintType_unique",
             Cat(<<App("unique"), Lit(<<"(">>), ListOf(App("identifier")), Lit(<<")">>)>>)),
        Case("ConstraintType_primaryKey",
             Cat(<<App("primary"), App("key"), Lit(<<"(">>), ListOf(App("identifier")),
                   Lit(<<")">>)>>)),
        Case("ConstraintType_exclude",
             Cat(<<App("exclude"), App("using"), App("identifier"), Lit(<<"(">>),
                   App("identifier"), App("with"), App("ExcludeOperator"), Lit(<<")">>)>>))>>)

ConstraintSettings == Cat(<<Lit(<<"[">>), ListOf(App("ConstraintSetting")), Lit(<<"]">>)>>)

ConstraintSetting ==
  Alt(<<Case("ConstraintSetting_deferrable", Cat(<<App("deferrable")>>)),
        Case("ConstraintSetting_notDeferrable", Cat(<<App("not"), App("deferrable")>>)),
        Case("ConstraintSetting_initiallyDeferred", Cat(<<App("initially"), App("deferred")>>)),
        Case("ConstraintSetting_initiallyImmediate",
             Cat(<<App("initially"), App("immediate")>>))>>)

Ref ==
  Cat(<<App("ref"), Opt(App("RefName")), Lit(<<":">>), App("RefEndpoint"), App("RefType"),
        App("RefEndpoint"), Opt(App("RefSettings"))>>)

RefName == App("identifier")

RefEndpoint ==
  Alt(<<Case("RefEndpoint_compositeQualified",
             Cat(<<App("identifier"), Lit(<<".">>), App("identifier"), Lit(<<".">>),
                   Lit(<<"(">>), ListOf(App("identifier")), Lit(<<")">>)>>)),
        Case("RefEndpoint_composite",
             Cat(<<App("identifier"), Lit(<<".">>), Lit(<<"(">>), ListOf(App("identifier")),
                   Lit(<<")">>)>>)),
        Case("RefEndpoint_simpleQualified",
             Cat(<<App("identifier"), Lit(<<".">>), App("identifier"), Lit(<<".">>),
                   App("identifier")>>)),
        Case("RefEndpoint_simple",
             Cat(<<App("identifier"), Lit(<<".">>), App("identifier")>>))>>)

(* the alternatives with "<" tried before "<>" *)
RefType_fromFirst ==
  Alt(<<Case("RefType_from", Cat(<<Lit(<<"<">>)>>)),
        Case("RefType_many", Cat(<<Lit(<<"<", ">">>)>>)),
        Case("RefType_to", Cat(<<Lit(<<">">>)>>)),
        Case("RefType_one", Cat(<<Lit(<<"-">>)>>))>>)

RefType ==
  Alt(<<Case("RefType_many", Cat(<<Lit(<<"<", ">">>)>>)),
        Case("RefType_to", Cat(<<Lit(<<">">>)>>)),
        Case("RefType_from", Cat(<<Lit(<<"<">>)>>)),
        Case("RefType_one", Cat(<<Lit(<<"-">>)>>))>>)

RefSettings == Cat(<<Lit(<<"[">>), ListOf(App("RefSetting")), Lit(<<"]">>)>>)

RefSetting ==
  Alt(<<Case("RefSetting_delete", Cat(<<App("RefOnDelete")>>)),
        Case("RefSetting_update", Cat(<<App("RefOnUpdate")>>))>>)

RefOnDelete == Cat(<<App("delete"), Lit(<<":">>), App("RefAction")>>)

RefOnUpdate == Cat(<<App("update"), Lit(<<":">>), App("RefAction")>>)

RefAction ==
  Alt(<<Case("RefAction_cascade", Cat(<<App("cascade")>>)),
        Case("RefAction_restrict", Cat(<<App("restrict")>>)),
        Case("RefAction_setNull", Cat(<<App("set"), App("null")>>)),
        Case("RefAction_setDefault", Cat(<<App("set"), App("default")>>)),
        Case("RefAction_noAction", Cat(<<App("no"), App("action")>>))>>)

Enum ==
  Cat(<<App("enum"), App("identifier"), Lit(<<"{">>), Star(App("EnumValue")), Lit(<<"}">>)>>)

EnumValue == Cat(<<App("identifier"), Opt(App("EnumValueNote"))>>)

EnumValueNote ==
  Cat(<<Lit(<<"[">>), App("note"), Lit(<<":">>), App("Value"), Lit(<<"]">>)>>)

TableGroup ==
  Cat(<<App("tablegroup"), App("identifier"), Lit(<<"{">>), Star(App("identifier")),
        Lit(<<"}">>)>>)

Note == Cat(<<App("note"), Lit(<<":">>), App("Value")>>)

HeaderColor ==
  Cat(<<App("headercolor"), Lit(<<":">>), Alt(<<App("HexColor"), App("Value")>>)>>)

(* the body of a syntactic rule *)
RuleBody(R) ==
  CASE R = "Schema" -> Schema
    [] R = "Element" -> Element
    [] R = "Project" -> Project
    [] R = "ProjectBody" -> ProjectBody
    [] R = "ProjectProperty" -> ProjectProperty
    [] R = "Table" -> Table
    [] R = "QualifiedIdentifier" -> QualifiedIdentifier
    [] R = "TableAlias" -> TableAlias
    [] R = "TableBody" -> TableBody
    [] R = "TableElement" -> TableElement
    [] R = "TablePartial" -> TablePartial
    [] R = "TablePartialBody" -> TablePartialBody
    [] R = "TablePartialElement" -> TablePartialElement
    [] R = "PartialReference" -> PartialReference
    [] R = "Column" -> Column
    [] R = "DataType" -> DataType
    [] R = "ColumnSettings" -> ColumnSettings
    [] R = "ColumnSetting" -> ColumnSetting
    [] R = "ColumnDefault" -> ColumnDefault
    [] R = "ColumnNote" -> ColumnNote
    [] R = "ColumnRef" -> ColumnRef
    [] R = "DefaultValue" -> DefaultValue
    [] R = "Indexes" -> Indexes
    [] R = "Index" -> Index
    [] R = "IndexColumn" -> IndexColumn
    [] R = "SortOrder" -> SortOrder
    [] R = "IndexSettings" -> IndexSettings
    [] R = "IndexSetting" -> IndexSetting
    [] R = "IndexType" -> IndexType
    [] R = "IndexName" -> IndexName
    [] R = "IndexWhere" -> IndexWhere
    [] R = "IndexTypeName" -> IndexTypeName
    [] R = "Constraints" -> Constraints
    [] R = "Constraint" -> Constraint
    [] R = "ConstraintName" -> ConstraintName
    [] R = "ConstraintType" -> ConstraintType
    [] R = "ConstraintSettings" -> ConstraintSettings
    [] R = "ConstraintSetting" -> ConstraintSetting
    [] R = "Ref" -> Ref
    [] R = "RefName" -> RefName
    [] R = "RefEndpoint" -> RefEndpoint
    [] R = "RefType" -> RefType
    [] R = "RefSettings" -> RefSettings
    [] R = "RefSetting" -> RefSetting
    [] R = "RefOnDelete" -> RefOnDelete
    [] R = "RefOnUpdate" -> RefOnUpdate
    [] R = "RefAction" -> RefAction
    [] R = "Enum" -> Enum
    [] R = "EnumValue" -> EnumValue
    [] R = "EnumValueNote" -> EnumValueNote
    [] R = "TableGroup" -> TableGroup
    [] R = "Note" -> Note
    [] R = "HeaderColor" -> HeaderColor

(***************************************************************************)
(* Lexical rules and keywords applied by name                              *)
(***************************************************************************)
Keywords ==
  {"project", "table", "tablepartial", "ref", "enum", "tablegroup", "indexes", "note",
   "headercolor", "as", "type", "name", "where", "default", "not", "null",
   "primary", "key", "delete", "update", "set", "no", "action", "true",
   "false", "pk", "unique", "increment", "asc", "desc", "btree", "hash",
   "gin", "gist", "spgist", "brin", "cascade", "restrict", "generated", "always",
   "by", "identity", "stored", "check", "constraints", "constraint", "exclude", "using",
   "with", "deferrable", "initially", "deferred", "immediate"}

LexicalRules ==
  Keywords \cup {"identifier", "backtickString", "Value", "HexColor", "TypeParams", "ExcludeOperator"}

Lexical(R, s, p) ==
  CASE R = "identifier" -> identifier(s, p)
    [] R = "backtickString" -> backtickString(s, p)
    [] R = "Value" -> Value(s, p)
    [] R = "HexColor" -> HexColor(s, p)
    [] R = "TypeParams" -> TypeParams(s, p)
    [] R = "ExcludeOperator" -> ExcludeOperator(s, p)
    [] R = "project" -> kw_project(s, p)
    [] R = "table" -> kw_table(s, p)
    [] R = "tablepartial" -> kw_tablepartial(s, p)
    [] R = "ref" -> kw_ref(s, p)
    [] R = "enum" -> kw_enum(s, p)
    [] R = "tablegroup" -> kw_tablegroup(s, p)
    [] R = "indexes" -> kw_indexes(s, p)
    [] R = "note" -> kw_note(s, p)
    [] R = "headercolor" -> kw_headercolor(s, p)
    [] R = "as" -> kw_as(s, p)
    [] R = "type" -> kw_type(s, p)
    [] R = "name" -> kw_name(s, p)
    [] R = "where" -> kw_where(s, p)
    [] R = "default" -> kw_default(s, p)
    [] R = "not" -> kw_not(s, p)
    [] R = "null" -> kw_null(s, p)
    [] R = "primary" -> kw_primary(s, p)
    [] R = "key" -> kw_key(s, p)
    [] R = "delete" -> kw_delete(s, p)
    [] R = "update" -> kw_update(s, p)
    [] R = "set" -> kw_set(s, p)
    [] R = "no" -> kw_no(s, p)
    [] R = "action" -> kw_action(s, p)
    [] R = "true" -> kw_true(s, p)
    [] R = "false" -> kw_false(s, p)
    [] R = "pk" -> kw_pk(s, p)
    [] R = "unique" -> kw_unique(s, p)
    [] R = "increment" -> kw_increment(s, p)
    [] R = "asc" -> kw_asc(s, p)
    [] R = "desc" -> kw_desc(s, p)
    [] R = "btree" -> kw_btree(s, p)
    [] R = "hash" -> kw_hash(s, p)
    [] R = "gin" -> kw_gin(s, p)
    [] R = "gist" -> kw_gist(s, p)
    [] R = "spgist" -> kw_spgist(s, p)
    [] R = "brin" -> kw_brin(s, p)
    [] R = "cascade" -> kw_cascade(s, p)
    [] R = "restrict" -> kw_restrict(s, p)
    [] R = "generated" -> kw_generated(s, p)
    [] R = "always" -> kw_always(s, p)
    [] R = "by" -> kw_by(s, p)
    [] R = "identity" -> kw_identity(s, p)
    [] R = "stored" -> kw_stored(s, p)
    [] R = "check" -> kw_check(s, p)
    [] R = "constraints" -> kw_constraints(s, p)
    [] R = "constraint" -> kw_constraint(s, p)
    [] R = "exclude" -> kw_exclude(s, p)
    [] R = "using" -> kw_using(s, p)
    [] R = "with" -> kw_with(s, p)
    [] R = "deferrable" -> kw_deferrable(s, p)
    [] R = "initially" -> kw_initially(s, p)
    [] R = "deferred" -> kw_deferred(s, p)
    [] R = "immediate" -> kw_immediate(s, p)

(***************************************************************************)
(* Semantic actions (semantics.ts 54-710)                                   *)
(***************************************************************************)
(* the fold with the arguments of Object.assign exchanged: the earlier
   setting of a field is kept *)
RECURSIVE AssignAll_keepFirst(_, _)
AssignAll_keepFirst(acc, settings) ==
  IF settings = <<>> THEN acc
  ELSE AssignAll_keepFirst(ObjectAssign(Head(settings), acc), Tail(settings))

(* The settings loops of semantics.ts (278-284, 407-413, 525-531, 615-621):
   result = {}; for each setting in written order Object.assign(result, it) *)
RECURSIVE AssignAll(_, _)
AssignAll(acc, settings) ==
  IF settings = <<>> THEN acc
  ELSE AssignAll(ObjectAssign(acc, Head(settings)), Tail(settings))

EmptyObject == [x \in {} |-> TRUE]

(* a Ref that always carries a name field *)
Ref_toAST_alwaysName(name, from, refType, to, settings) ==
  LET r0 == [type |-> Str("ref"), from |-> from, to |-> to, refType |-> refType,
             name |-> IF Len(name) > 0 THEN Str(name[1]) ELSE Undefined]
  IN IF Len(settings) > 0 THEN ObjectAssign(r0, settings[1]) ELSE r0

(* semantics.ts Ref *)
Ref_toAST(name, from, refType, to, settings) ==
  LET r0 == [type |-> Str("ref"), from |-> from, to |-> to, refType |-> refType]
      r1 == IF Len(name) > 0 THEN ObjectAssign(r0, [name |-> Str(name[1])]) ELSE r0
  IN IF Len(settings) > 0 THEN ObjectAssign(r1, settings[1]) ELSE r1

(* semantics.ts Column: the ColumnAST, settings assigned over it *)
Column_toAST(name, dataType, settings) ==
  LET r == [type |-> Str("column"), name |-> name, dataType |-> dataType]
  IN IF Len(settings) > 0 THEN ObjectAssign(r, settings[1]) ELSE r

RECURSIVE LowerCaseJoin(_)
LowerCaseJoin(q) ==
  IF q = <<>> THEN "" ELSE toLowerCase(Head(q)) \o LowerCaseJoin(Tail(q))

(* semantics.ts Index_composite / Index_single *)
Index_toAST(columns, settings) ==
  IF Len(settings) > 0
  THEN ObjectAssign([columns |-> columns], settings[1])
  ELSE [columns |-> columns]

(* a Constraint whose settings are assigned over the bare type object, so
   that a name is lost when settings follow *)
Constraint_toAST_settingsOverType(name, type, settings) ==
  IF Len(settings) > 0 THEN ObjectAssign(type, settings[1])
  ELSE IF Len(name) > 0 THEN ObjectAssign(type, [name |-> name[1]]) ELSE type

(* semantics.ts Constraint *)
Constraint_toAST(name, type, settings) ==
  LET c1 == IF Len(name) > 0 THEN ObjectAssign(type, [name |-> name[1]]) ELSE type
  IN IF Len(settings) > 0 THEN ObjectAssign(c1, settings[1]) ELSE c1

Without(rec, keys) == [k \in DOMAIN rec \ keys |-> rec[k]]

(* The Column object built from a ColumnAST (semantics.ts 151-156, 214-219):
   { name, type: dataType, ...columnProps } *)
NewColumn(element) ==
  ObjectAssign([name |-> element.name, type |-> Str(element.dataType)],
               Without(element, {"type", "dataType"}))

(* the loop entering a partial reference into columns as well, as a
   column of the partial's name *)
TableVisit_partialAsColumn(t, element) ==
  IF element.type = Str("column")
  THEN LET objs == Append(t.objs, NewColumn(element))
       IN [t EXCEPT !.objs = objs,
                    !.columns = Append(@, Len(objs)),
                    !.elements = Append(@, [type |-> "column", column |-> Len(objs)])]
  ELSE IF element.type = Str("indexes") THEN [t EXCEPT !.indexes = element.indexes]
  ELSE IF element.type = Str("constraints")
  THEN ObjectAssign(t, [constraints |-> element.constraints])
  ELSE IF element.type = Str("note") THEN ObjectAssign(t, [note |-> element.value])
  ELSE IF element.type = Str("headerColor")
  THEN ObjectAssign(t, [headerColor |-> element.value])
  ELSE IF element.type = Str("partialReference")
  THEN LET objs == Append(t.objs, [name |-> element.name, type |-> Str("")])
       IN [t EXCEPT !.objs = objs,
                    !.columns = Append(@, Len(objs)),
                    !.elements = Append(@, [type |-> "partialRef", ref |-> [name |-> element.name]])]
  ELSE t

(* the loop pushing a fresh copy of the Column into elements instead of
   the object it pushed into columns *)
TableVisit_copy(t, element) ==
  IF element.type = Str("column")
  THEN LET objs == Append(Append(t.objs, NewColumn(element)), NewColumn(element))
       IN [t EXCEPT !.objs = objs,
                    !.columns = Append(@, Len(objs) - 1),
                    !.elements = Append(@, [type |-> "column", column |-> Len(objs)])]
  ELSE IF element.type = Str("indexes") THEN [t EXCEPT !.indexes = element.indexes]
  ELSE IF element.type = Str("constraints")
  THEN ObjectAssign(t, [constraints |-> element.constraints])
  ELSE IF element.type = Str("note") THEN ObjectAssign(t, [note |-> element.value])
  ELSE IF element.type = Str("headerColor")
  THEN ObjectAssign(t, [headerColor |-> element.value])
  ELSE IF element.type = Str("partialReference")
  THEN [t EXCEPT !.elements = Append(@, [type |-> "partialRef", ref |-> [name |-> element.name]])]
  ELSE t

(* a loop that appends the indexes of every block *)
TableVisit_appendIndexes(t, element) ==
  IF element.type = Str("column")
  THEN LET objs == Append(t.objs, NewColumn(element))
       IN [t EXCEPT !.objs = objs,
                    !.columns = Append(@, Len(objs)),
                    !.elements = Append(@, [type |-> "column", column |-> Len(objs)])]
  ELSE IF element.type = Str("indexes") THEN [t EXCEPT !.indexes = @ \o element.indexes]
  ELSE IF element.type = Str("constraints")
  THEN ObjectAssign(t, [constraints |-> element.constraints])
  ELSE IF element.type = Str("note") THEN ObjectAssign(t, [note |-> element.value])
  ELSE IF element.type = Str("headerColor")
  THEN ObjectAssign(t, [headerColor |-> element.value])
  ELSE IF element.type = Str("partialReference")
  THEN [t EXCEPT !.elements = Append(@, [type |-> "partialRef", ref |-> [name |-> element.name]])]
  ELSE t

(* One turn of the loop over bodyElements in Table (semantics.ts 145-177).
   A table keeps the Column objects it created in objs; columns and the
   column entries of elements hold references (indices) into objs, so the
   two lists share one object per column, as result.columns.push(col) and
   result.elements.push({ type: "column", column: col }) do. *)
TableVisit(t, element) ==
  IF element.type = Str("column")
  THEN LET objs == Append(t.objs, NewColumn(element))
       IN [t EXCEPT !.objs = objs,
                    !.columns = Append(@, Len(objs)),
                    !.elements = Append(@, [type |-> "column", column |-> Len(objs)])]
  ELSE IF element.type = Str("indexes") THEN [t EXCEPT !.indexes = element.indexes]
  ELSE IF element.type = Str("constraints")
  THEN ObjectAssign(t, [constraints |-> element.constraints])
  ELSE IF element.type = Str("note") THEN ObjectAssign(t, [note |-> element.value])
  ELSE IF element.type = Str("headerColor")
  THEN ObjectAssign(t, [headerColor |-> element.value])
  ELSE IF element.type = Str("partialReference")
  THEN [t EXCEPT !.elements = Append(@, [type |-> "partialRef", ref |-> [name |-> element.name]])]
  ELSE t

RECURSIVE TableLoop(_, _)
TableLoop(t, bodyElements) ==
  IF bodyElements = <<>> THEN t
  ELSE TableLoop(TableVisit(t, Head(bodyElements)), Tail(bodyElements))

(* semantics.ts Table *)
Table_toAST(nameInfo, alias, bodyElements) ==
  LET r0 == [type |-> Str("table"),
             name |-> Str(IF "str" \in DOMAIN nameInfo THEN nameInfo.str ELSE nameInfo.name),
             objs |-> <<>>, columns |-> <<>>, indexes |-> <<>>, elements |-> <<>>]
      r1 == IF "schema" \in DOMAIN nameInfo
            THEN ObjectAssign(r0, [schema |-> nameInfo.schema]) ELSE r0
      r2 == IF Len(alias) > 0 THEN ObjectAssign(r1, [alias |-> alias[1]]) ELSE r1
  IN TableLoop(r2, bodyElements)

(* One turn of the loop over elements in TablePartial (211-233) *)
TablePartialVisit(t, element) ==
  IF element.type = Str("column")
  THEN [t EXCEPT !.columns = Append(@, NewColumn(element))]
  ELSE IF element.type = Str("indexes") THEN [t EXCEPT !.indexes = element.indexes]
  ELSE IF element.type = Str("constraints")
  THEN ObjectAssign(t, [constraints |-> element.constraints])
  ELSE IF element.type = Str("note") THEN ObjectAssign(t, [note |-> element.value])
  ELSE t

RECURSIVE TablePartialLoop(_, _)
TablePartialLoop(t, elements) ==
  IF elements = <<>> THEN t
  ELSE TablePartialLoop(TablePartialVisit(t, Head(elements)), Tail(elements))

(* semantics.ts TablePartial *)
TablePartial_toAST(name, elements) ==
  TablePartialLoop([type |-> Str("tablePartial"), name |-> Str(name),
                    columns |-> <<>>, indexes |-> <<>>], elements)

(* semantics.ts ProjectBody: props[key] = value for each property in turn *)
RECURSIVE ProjectBody_toAST(_, _)
ProjectBody_toAST(props, properties) ==
  IF properties = <<>> THEN props
  ELSE ProjectBody_toAST(ObjectAssign(props, Head(properties).key :> Head(properties).value),
                         Tail(properties))

(* semantics.ts Project: { type: "project", name, ...props } *)
Project_toAST(name, props) ==
  ObjectAssign([type |-> Str("project"), name |-> Str(name)], props)

(* One turn of the loop in Schema: switch (ast.type) *)
SchemaVisit(schema, ast) ==
  IF ast.type = Str("project")
  THEN [schema EXCEPT !.project = ast, !.name = ast.name]
  ELSE IF ast.type = Str("table") THEN [schema EXCEPT !.tables = Append(@, ast)]
  ELSE IF ast.type = Str("tablePartial") THEN [schema EXCEPT !.partials = Append(@, ast)]
  ELSE IF ast.type = Str("ref") THEN [schema EXCEPT !.refs = Append(@, ast)]
  ELSE IF ast.type = Str("enum") THEN [schema EXCEPT !.enums = Append(@, ast)]
  ELSE IF ast.type = Str("tableGroup") THEN [schema EXCEPT !.tableGroups = Append(@, ast)]
  ELSE schema

RECURSIVE SchemaLoop(_, _)
SchemaLoop(schema, elements) ==
  IF elements = <<>> THEN schema
  ELSE SchemaLoop(SchemaVisit(schema, Head(elements)), Tail(elements))

(* semantics.ts Schema *)
Schema_toAST(elements) ==
  SchemaLoop([name |-> Str("database"), tables |-> <<>>, refs |-> <<>>, enums |-> <<>>,
              tableGroups |-> <<>>, project |-> Undefined, partials |-> <<>>], elements)


(* node.sourceString of the child matched from c.at to c.to: the leading
   spaces the engine skipped are not part of the node *)
sourceString(s, c) == SubSeq(s, skipSpaces(s, c.at), c.to - 1)

(* semantics.ts HeaderColor *)
HeaderColor_toAST(s, value) ==
  [type |-> Str("headerColor"),
   value |-> IF At(sourceString(s, value), 1) = "#"
             THEN Str(Join(sourceString(s, value)))
             ELSE value.v]

(* semantics.ts IndexColumn, EnumValue: the optional field is set when the
   optional child is present *)
IndexColumn_toAST(name, sort) ==
  IF Len(sort) > 0 THEN [name |-> name, sort |-> sort[1]] ELSE [name |-> name]

EnumValue_toAST(name, note) ==
  IF Len(note) > 0 THEN [name |-> name, note |-> note[1]] ELSE [name |-> name]

(* The semantic action of rule R on its children c.  The children of a
   sequence are records [v: the child's toAST(), at, to: where it matched];
   an iteration child holds the list of its children's values; the child of
   a rule whose body is a repetition is that list.  A rule without an action
   of its own passes its only child's value through. *)
Action(R, s, c) ==
  CASE R = "Schema" -> Schema_toAST(c)
    [] R = "Project" -> Project_toAST(c[2].v, c[4].v)
    [] R = "ProjectBody" -> ProjectBody_toAST(EmptyObject, c)
    [] R = "ProjectProperty" -> [key |-> c[1].v, value |-> c[3].v]
    [] R = "Table" -> Table_toAST(c[2].v, c[3].v, c[5].v)
    [] R = "QualifiedIdentifier_qualified" -> [schema |-> c[1].v, name |-> c[3].v]
    [] R = "QualifiedIdentifier_simple" -> Str(c[1].v)
    [] R = "TableAlias" -> c[2].v
    [] R = "TablePartial" -> TablePartial_toAST(c[2].v, c[4].v)
    [] R = "PartialReference" -> [type |-> Str("partialReference"), name |-> c[2].v]
    [] R = "Column" -> Column_toAST(c[1].v, c[2].v, c[3].v)
    [] R = "DataType_array" -> c[1].v \o "[]"
    [] R = "DataType_parameterized" -> c[1].v \o "(" \o c[3].v \o ")"
    [] R = "DataType_simple" -> c[1].v
    [] R = "ColumnSettings" -> AssignAll(EmptyObject, c[2].v)
    [] R = "ColumnSetting_pk" -> [pk |-> TRUE]
    [] R = "ColumnSetting_primaryKey" -> [pk |-> TRUE]
    [] R = "ColumnSetting_unique" -> [unique |-> TRUE]
    [] R = "ColumnSetting_notNull" -> [notNull |-> TRUE]
    [] R = "ColumnSetting_null" -> [notNull |-> FALSE]
    [] R = "ColumnSetting_increment" -> [increment |-> TRUE]
    [] R = "ColumnSetting_identityAlways" -> [identityGeneration |-> "always"]
    [] R = "ColumnSetting_identityByDefault" -> [identityGeneration |-> "by default"]
    [] R = "ColumnSetting_generatedStored" ->
         [generatedExpression |-> c[4].v, generatedStored |-> TRUE]
    [] R = "ColumnSetting_check" -> [check |-> c[2].v]
    [] R = "ColumnDefault" -> [default |-> c[3].v]
    [] R = "ColumnNote" -> [note |-> c[3].v]
    [] R = "ColumnRef" -> [ref |-> [type |-> c[3].v, to |-> c[4].v]]
    [] R = "DefaultValue_expression" -> [type |-> "expression", value |-> c[1].v]
    [] R = "DefaultValue_literal" -> c[1].v
    [] R = "Indexes" -> [type |-> Str("indexes"), indexes |-> c[3].v]
    [] R = "Index_composite" -> Index_toAST(c[2].v, c[4].v)
    [] R = "Index_single" -> Index_toAST(<<[name |-> c[1].v]>>, c[2].v)
    [] R = "IndexColumn" -> IndexColumn_toAST(c[1].v, c[2].v)
    [] R = "SortOrder_asc" -> "asc"
    [] R = "SortOrder_desc" -> "desc"
    [] R = "IndexSettings" -> AssignAll(EmptyObject, c[2].v)
    [] R = "IndexSetting_pk" -> [pk |-> TRUE]
    [] R = "IndexSetting_unique" -> [unique |-> TRUE]
    [] R = "IndexType" -> [type |-> c[3].v]
    [] R = "IndexName" -> [name |-> c[3].v]
    [] R = "IndexWhere" -> [where |-> c[3].v]
    [] R = "IndexTypeName_btree" -> "btree"
    [] R = "IndexTypeName_hash" -> "hash"
    [] R = "IndexTypeName_gin" -> "gin"
    [] R = "IndexTypeName_gist" -> "gist"
    [] R = "IndexTypeName_spgist" -> "spgist"
    [] R = "IndexTypeName_brin" -> "brin"
    [] R = "IndexTypeName_custom" -> LowerCaseJoin(sourceString(s, c[1]))
    [] R = "Constraints" -> [type |-> Str("constraints"), constraints |-> c[3].v]
    [] R = "Constraint" -> Constraint_toAST(c[1].v, c[2].v, c[3].v)
    [] R = "ConstraintName" -> c[2].v
    [] R = "ConstraintType_check" -> [type |-> "check", expression |-> c[2].v]
    [] R = "ConstraintType_unique" -> [type |-> "unique", columns |-> c[3].v]
    [] R = "ConstraintType_primaryKey" -> [type |-> "primary_key", columns |-> c[4].v]
    [] R = "ConstraintType_exclude" ->
         [type |-> "exclude", using |-> c[3].v, columns |-> <<c[5].v>>,
          withOperator |-> c[7].v]
    [] R = "ConstraintSettings" -> AssignAll(EmptyObject, c[2].v)
    [] R = "ConstraintSetting_deferrable" -> [deferrable |-> TRUE]
    [] R = "ConstraintSetting_notDeferrable" -> [deferrable |-> FALSE]
    [] R = "ConstraintSetting_initiallyDeferred" -> [initiallyDeferred |-> TRUE]
    [] R = "ConstraintSetting_initiallyImmediate" -> [initiallyDeferred |-> FALSE]
    [] R = "Ref" -> Ref_toAST(c[2].v, c[4].v, c[5].v, c[6].v, c[7].v)
    [] R = "RefEndpoint_compositeQualified" ->
         [schema |-> c[1].v, table |-> c[3].v, columns |-> c[6].v]
    [] R = "RefEndpoint_composite" -> [table |-> c[1].v, columns |-> c[4].v]
    [] R = "RefEndpoint_simpleQualified" ->
         [schema |-> c[1].v, table |-> c[3].v, column |-> c[5].v]
    [] R = "RefEndpoint_simple" -> [table |-> c[1].v, column |-> c[3].v]
    [] R = "RefType_many" -> "<>"
    [] R = "RefType_to" -> ">"
    [] R = "RefType_from" -> "<"
    [] R = "RefType_one" -> "-"
    [] R = "RefSettings" -> AssignAll(EmptyObject, c[2].v)
    [] R = "RefSetting_delete" -> c[1].v
    [] R = "RefSetting_update" -> c[1].v
    [] R = "RefOnDelete" -> [onDelete |-> c[3].v]
    [] R = "RefOnUpdate" -> [onUpdate |-> c[3].v]
    [] R = "RefAction_cascade" -> "cascade"
    [] R = "RefAction_restrict" -> "restrict"
    [] R = "RefAction_setNull" -> "set null"
    [] R = "RefAction_setDefault" -> "set default"
    [] R = "RefAction_noAction" -> "no action"
    [] R = "Enum" -> [type |-> Str("enum"), name |-> Str(c[2].v), values |-> c[4].v]
    [] R = "EnumValue" -> EnumValue_toAST(c[1].v, c[2].v)
    [] R = "EnumValueNote" -> c[4].v
    [] R = "TableGroup" ->
         [type |-> Str("tableGroup"), name |-> Str(c[2].v), tables |-> c[4].v]
    [] R = "Note" -> [type |-> Str("note"), value |-> c[3].v]
    [] R = "HeaderColor" -> HeaderColor_toAST(s, c[3])
    [] OTHER -> c

(***************************************************************************)
(* The matching engine: ordered choice, greedy repetition without          *)
(* backtracking into it, and the implicit space* before every terminal and *)
(* every rule application of a syntactic rule.                             *)
(***************************************************************************)
RECURSIVE Apply(_, _, _)
RECURSIVE Eval(_, _, _)
RECURSIVE EvalSeq(_, _, _)
RECURSIVE EvalStar(_, _, _)
RECURSIVE EvalListRest(_, _, _)

(* a successful match of rule R is given the value its action returns *)
Reduce(R, s, r) == IF r.ok THEN Ok(r.pos, Action(R, s, r.v)) ELSE Fail

(* x? : r is the match of x at p *)
OptOf(p, r) == IF r.ok THEN Ok(r.pos, <<r.v>>) ELSE Ok(p, <<>>)

(* the children t of the parts matched so far, and after them the child r
   matched where they ended *)
SeqAdd(t, r) ==
  IF r.ok THEN Ok(r.pos, Append(t.v, [v |-> r.v, at |-> t.pos, to |-> r.pos])) ELSE Fail

(* x1 x2 ... x : t is the match of the parts before the last part x, which
   is matched where they ended *)
SeqStep(x, s, t) == IF t.ok THEN SeqAdd(t, Eval(x, s, t.pos)) ELSE Fail

(* x1 | x2 | ... : rs holds <<i, the match of xi>> for every alternative;
   the first alternative that matches, and no other *)
AltFirst(rs) ==
  IF \E h \in rs : h[2].ok
  THEN (CHOOSE h \in rs : h[2].ok /\ \A g \in rs : g[2].ok => h[1] <= g[1])[2]
  ELSE Fail

(* the value of r in front of the values t of an iteration *)
IterCons(r, t) == Ok(t.pos, <<r.v>> \o t.v)

(* x* : r is the match of x at p; greedy, never backtracked into *)
StarStep(x, s, p, r) ==
  IF r.ok /\ r.pos > p THEN IterCons(r, EvalStar(x, s, r.pos)) ELSE Ok(p, <<>>)

(* ("," x)* of NonemptyListOf: c is the match of "," at p, r that of x *)
ListRestStep(x, s, p, c, r) ==
  IF c.ok /\ r.ok THEN IterCons(r, EvalListRest(x, s, r.pos)) ELSE Ok(p, <<>>)

(* ListOf<x, ","> : r is the match of x at p *)
ListStep(x, s, p, r) ==
  IF r.ok THEN IterCons(r, EvalListRest(x, s, r.pos)) ELSE Ok(p, <<>>)

(* application of rule R at p from the body of a syntactic rule *)
Apply(R, s, p) ==
  IF R \in LexicalRules
  THEN Lexical(R, s, skipSpaces(s, p))
  ELSE Reduce(R, s, Eval(RuleBody(R), s, p))

Eval(e, s, p) ==
  CASE e.op = "terminal" -> T(s, p, e.w)
    [] e.op = "apply" -> Apply(e.rule, s, p)
    [] e.op = "case" -> Reduce(e.rule, s, Eval(e.x, s, p))
    [] e.op = "seq" -> EvalSeq(e.xs, s, p)
    [] e.op = "alt" -> AltFirst({<<i, Eval(e.xs[i], s, p)>> : i \in DOMAIN e.xs})
    [] e.op = "star" -> EvalStar(e.x, s, p)
    [] e.op = "opt" -> OptOf(p, Eval(e.x, s, p))
    [] e.op = "listOf" -> ListStep(e.x, s, p, Eval(e.x, s, p))

(* x1 x2 ... : every part in turn, each where the previous one ended *)
EvalSeq(xs, s, p) ==
  IF xs = <<>> THEN Ok(p, <<>>)
  ELSE SeqStep(xs[Len(xs)], s, EvalSeq(SubSeq(xs, 1, Len(xs) - 1), s, p))

EvalStar(x, s, p) == StarStep(x, s, p, Eval(x, s, p))

EvalListRest(x, s, p) ==
  ListRestStep(x, s, p, T(s, p, <<",">>), Eval(x, s, T(s, p, <<",">>).pos))

(* the start rule must be followed by the end of the input, after skipping
   spaces *)
MatchEnd(dbml, r) == IF skipSpaces(dbml, r.pos) = Len(dbml) + 1 THEN r ELSE Fail

(* grammar.match(dbml) *)
match(dbml) == MatchEnd(dbml, Apply("Schema", dbml, 1))

(***************************************************************************)
(* Parser (parser.ts 848-926) and ParseError (parser.ts 931-973)           *)
(***************************************************************************)
DefaultTypeMappings == [kinstant |-> "timestamp with time zone", kjson |-> "jsonb"]

(* the constructor spreading the defaults over the caller's entries *)
Parser_constructor_defaultsLast(optionsTypeMappings) ==
  ObjectAssign(optionsTypeMappings, DefaultTypeMappings)

(* constructor: { ...defaults, ...options.typeMappings } *)
Parser_constructor(optionsTypeMappings) ==
  ObjectAssign(DefaultTypeMappings, optionsTypeMappings)

(* constructor: this.strict = options.strict || false *)
Parser_strict(opts) == IF "strict" \in DOMAIN opts THEN opts.strict ELSE FALSE

(* Properties every plain object inherits from Object.prototype; each is a
   function, except __proto__, which is the prototype object itself. *)
ObjectPrototypeKeys ==
  {"constructor", "toString", "toLocaleString", "valueOf", "hasOwnProperty",
   "isPrototypeOf", "propertyIsEnumerable", "__proto__", "__defineGetter__",
   "__defineSetter__", "__lookupGetter__", "__lookupSetter__"}

(* obj[key] on a plain object whose own properties are strings *)
Get(obj, key) ==
  IF key \in DOMAIN obj THEN Str(obj[key])
  ELSE IF key \in ObjectPrototypeKeys THEN [fn |-> key]
  ELSE Undefined

Truthy(v) == v # Undefined /\ v # Str("") /\ v # Bool(FALSE)

(* mapType: this.typeMappings[type] || type *)
mapType(mappings, type) ==
  IF Truthy(Get(mappings, type)) THEN Get(mappings, type) ELSE Str(type)

(* for (const column of table.columns) column.type = mapType(column.type)
   on a Table: every referenced Column object is rewritten in place. *)
MapColumns(mappings, table) ==
  [table EXCEPT !.objs =
     [i \in DOMAIN table.objs |->
        IF \E j \in DOMAIN table.columns : table.columns[j] = i
        THEN [table.objs[i] EXCEPT !.type = mapType(mappings, table.objs[i].type.str)]
        ELSE table.objs[i]]]

(* Whether the inner loop of parse throws a TypeError on this entry of
   ast.tables: columns is missing or a non-iterable value, or it is a
   non-empty string, whose characters are primitives that cannot take a
   property in strict mode. *)
ColumnsLoopThrows(table) ==
  IF "columns" \notin DOMAIN table THEN TRUE
  ELSE IF "objs" \in DOMAIN table THEN FALSE
  ELSE table.columns # Str("")

(* The type-mapping step of parse (parser.ts 876-884) *)
ApplyTypeMappings(mappings, ast) ==
  IF \E i \in DOMAIN ast.tables : ColumnsLoopThrows(ast.tables[i])
  THEN [kind |-> "throw", error |-> [name |-> "TypeError"]]
  ELSE [kind |-> "return",
        value |-> [ast EXCEPT !.tables =
                     [i \in DOMAIN ast.tables |->
                        IF "objs" \in DOMAIN ast.tables[i]
                        THEN MapColumns(mappings, ast.tables[i])
                        ELSE ast.tables[i]]]]

(* source.split("\n") *)
RECURSIVE Split(_, _)
Split(source, sep) ==
  LET i == ScanTo(source, 1, {sep})
  IN IF i > Len(source) THEN <<source>>
     ELSE <<SubSeq(source, 1, i - 1)>> \o Split(SubSeq(source, i + 1, Len(source)), sep)

(* The matching engine's message for a failure at offset o. *)
EngineMessage(o) == [failureAt |-> o]

(* the constructor taking the length of the last piece for the column *)
ParseError_columnFromZero(source, startIdx) ==
  LET lines == Split(SubSeq(source, 1, startIdx), "\n")
  IN [name |-> "ParseError",
      message |-> EngineMessage(startIdx),
      line |-> Len(lines),
      column |-> Len(lines[Len(lines)])]

(* new ParseError(match): startIdx is the engine's failure offset (0-based) *)
ParseError(source, startIdx) ==
  LET lines == Split(SubSeq(source, 1, startIdx), "\n")
  IN [name |-> "ParseError",
      message |-> EngineMessage(startIdx),
      line |-> Len(lines),
      column |-> Len(lines[Len(lines)]) + 1]

(* `${n}` for a non-negative integer: its decimal digits *)
RECURSIVE NumberToString(_)
NumberToString(n) ==
  IF n < 10 THEN <<Digits[n + 1]>> ELSE NumberToString(n \div 10) \o <<Digits[(n % 10) + 1]>>

(* " ".repeat(n) *)
repeat(ch, n) == [i \in 1..n |-> ch]

(* ParseError.getFormattedMessage: the characters of the template string;
   the message is the engine's and stands as one item. A line number
   beyond the input's lines would give the text "undefined". *)
getFormattedMessage(error, matchInput) ==
  LET lines == Split(matchInput, "\n")
      errorLine == IF error.line \in DOMAIN lines THEN lines[error.line]
                   ELSE <<"u", "n", "d", "e", "f", "i", "n", "e", "d">>
      pointer == repeat(" ", error.column - 1) \o <<"^">>
  IN <<error.message, "\n", "\n", "L", "i", "n", "e", " ">> \o NumberToString(error.line)
       \o <<",", " ", "c", "o", "l", "u", "m", "n", " ">> \o NumberToString(error.column)
       \o <<":", "\n">> \o errorLine \o <<"\n">> \o pointer

(* a call that puts the built-in aliases back into this.typeMappings *)
ParserAfterCall_resetsAliases(fields) == [fields EXCEPT !.typeMappings = DefaultTypeMappings]

(* The Parser's fields after a call of parse or validate: neither method
   assigns to this.typeMappings or this.strict, and grammar and semantics
   are module constants that a call only reads. *)
ParserAfterCall(fields) == fields

(* Parser.parse(dbml) with the default start rule *)
parse(mappings, dbml, o) ==
  LET m == match(dbml)
  IN IF ~m.ok THEN [kind |-> "throw", error |-> ParseError(dbml, o)]
     ELSE ApplyTypeMappings(mappings, m.v)

(* validate written as a call of parse whose failure is not caught *)
validate_viaParse(dbml, o) ==
  LET r == parse(DefaultTypeMappings, dbml, o)
  IN IF r.kind = "return" THEN [kind |-> "return", value |-> [valid |-> TRUE]] ELSE r

(* Parser.validate(dbml) *)
validate(dbml, o) ==
  IF match(dbml).ok
  THEN [kind |-> "return", value |-> [valid |-> TRUE]]
  ELSE [kind |-> "return", value |-> [valid |-> FALSE, error |-> EngineMessage(o)]]

(***************************************************************************)
(* The caller's texts.  A text is described by the sequence of top-level   *)
(* elements that were written; Render turns the description into the       *)
(* characters handed to parse and validate.                                *)
(***************************************************************************)
RECURSIVE Flatten(_)
Flatten(qs) == IF qs = <<>> THEN <<>> ELSE Head(qs) \o Flatten(Tail(qs))

(* the pieces, each followed by one space *)
RECURSIVE Spaced(_)
Spaced(qs) == IF qs = <<>> THEN <<>> ELSE Head(qs) \o <<" ">> \o Spaced(Tail(qs))

(* the pieces separated by ", " *)
RECURSIVE Commas(_)
Commas(qs) ==
  IF qs = <<>> THEN <<>>
  ELSE IF Len(qs) = 1 THEN qs[1]
  ELSE Head(qs) \o <<",", " ">> \o Commas(Tail(qs))

Quoted(chars) == <<"'">> \o chars \o <<"'">>
Backticked(chars) == <<backtick>> \o chars \o <<backtick>>

W_generated == <<"g", "e", "n", "e", "r", "a", "t", "e", "d">>
W_always == <<"a", "l", "w", "a", "y", "s">>
W_as == <<"a", "s">>
W_by == <<"b", "y">>
W_default == <<"d", "e", "f", "a", "u", "l", "t">>
W_identity == <<"i", "d", "e", "n", "t", "i", "t", "y">>

RenderEndpoint(e) ==
  (IF "schema" \in DOMAIN e THEN e.schema \o <<".">> ELSE <<>>)
    \o (IF "columns" \in DOMAIN e
        THEN e.table \o <<".", "(">> \o Commas(e.columns) \o <<")">>
        ELSE e.table \o <<".">> \o e.column)

RenderRefSetting(g) == g.key \o <<":", " ">> \o g.action

RenderSetting(g) ==
  CASE g.kind = "pk" -> <<"p", "k">>
    [] g.kind = "primaryKey" -> <<"p", "r", "i", "m", "a", "r", "y", " ", "k", "e", "y">>
    [] g.kind = "unique" -> <<"u", "n", "i", "q", "u", "e">>
    [] g.kind = "notNull" -> <<"n", "o", "t", " ", "n", "u", "l", "l">>
    [] g.kind = "null" -> <<"n", "u", "l", "l">>
    [] g.kind = "increment" -> <<"i", "n", "c", "r", "e", "m", "e", "n", "t">>
    [] g.kind = "identityAlways" ->
         W_generated \o <<" ">> \o W_always \o <<" ">> \o W_as \o <<" ">> \o W_identity
    [] g.kind = "identityByDefault" ->
         W_generated \o <<" ">> \o W_by \o <<" ">> \o W_default \o <<" ">> \o W_as
           \o <<" ">> \o W_identity
    [] g.kind = "generatedStored" ->
         W_generated \o <<" ">> \o W_always \o <<" ">> \o W_as \o <<" ">>
           \o Backticked(g.text) \o <<" ", "s", "t", "o", "r", "e", "d">>
    [] g.kind = "check" -> <<"c", "h", "e", "c", "k", " ">> \o Backticked(g.text)
    [] g.kind = "defaultString" -> W_default \o <<":", " ">> \o Quoted(g.text)
    [] g.kind = "defaultExpression" -> W_default \o <<":", " ">> \o Backticked(g.text)
    [] g.kind = "default" -> W_default \o <<":", " ">> \o g.text
    [] g.kind = "note" -> <<"n", "o", "t", "e", ":", " ">> \o Quoted(g.text)
    [] g.kind = "ref" -> <<"r", "e", "f", ":", " ">> \o g.refType \o <<" ">> \o RenderEndpoint(g.to)

RenderSettings(gs) ==
  <<"[">> \o Commas([i \in DOMAIN gs |-> RenderSetting(gs[i])]) \o <<"]">>

RenderIndexSetting(g) ==
  CASE g.kind = "type" -> <<"t", "y", "p", "e", ":", " ">> \o g.text
    [] g.kind = "name" -> <<"n", "a", "m", "e", ":", " ">> \o Quoted(g.text)
    [] g.kind = "where" -> <<"w", "h", "e", "r", "e", ":", " ">> \o Quoted(g.text)
    [] g.kind = "pk" -> <<"p", "k">>
    [] g.kind = "unique" -> <<"u", "n", "i", "q", "u", "e">>

(* an index column with the sort keyword written after it, if any *)
RenderIndexColumn(ix, i) ==
  ix.columns[i]
    \o (IF "sorts" \in DOMAIN ix /\ ix.sorts[i] # <<>> THEN <<" ">> \o ix.sorts[i] ELSE <<>>)

RenderIndex(ix) ==
  (IF ix.composite
   THEN <<"(">> \o Commas([i \in DOMAIN ix.columns |-> RenderIndexColumn(ix, i)]) \o <<")">>
   ELSE RenderIndexColumn(ix, 1))
    \o (IF "settings" \in DOMAIN ix
        THEN <<" ", "[">>
               \o Commas([i \in DOMAIN ix.settings |-> RenderIndexSetting(ix.settings[i])])
               \o <<"]">>
        ELSE <<>>)

RenderBodyItem(b) ==
  CASE b.kind = "column" ->
         b.name \o <<" ">> \o b.type
           \o (IF b.settings = <<>> THEN <<>> ELSE <<" ">> \o RenderSettings(b.settings))
    [] b.kind = "partialRef" -> <<"~">> \o b.name
    [] b.kind = "note" -> <<"n", "o", "t", "e", ":", " ">> \o Quoted(b.text)
    [] b.kind = "indexes" ->
         <<"i", "n", "d", "e", "x", "e", "s", " ", "{", " ">>
           \o Spaced([i \in DOMAIN b.indexes |-> RenderIndex(b.indexes[i])]) \o <<"}">>
    [] b.kind = "constraints" ->
         <<"c", "o", "n", "s", "t", "r", "a", "i", "n", "t", "s", " ", "{", " ">>
           \o b.text \o <<" ", "}">>
    [] b.kind = "headercolor" ->
         <<"h", "e", "a", "d", "e", "r", "c", "o", "l", "o", "r", ":", " ">> \o b.text

RenderBody(body) ==
  <<"{", " ">> \o Spaced([i \in DOMAIN body |-> RenderBodyItem(body[i])]) \o <<"}">>

RenderProperty(pr) == pr.key \o <<":", " ">> \o Quoted(pr.text)

RenderElement(e) ==
  CASE e.kind = "project" ->
         e.kw \o <<" ">> \o e.name \o <<" ", "{", " ">>
           \o Spaced([i \in DOMAIN e.props |-> RenderProperty(e.props[i])]) \o <<"}">>
    [] e.kind \in {"table", "tablepartial"} ->
         e.kw \o <<" ">> \o e.name \o <<" ">> \o RenderBody(e.body)
    [] e.kind \in {"tablegroup", "enum"} ->
         e.kw \o <<" ">> \o e.name \o <<" ", "{", " ">> \o Spaced(e.members) \o <<"}">>
    [] e.kind = "ref" ->
         e.kw \o (IF "name" \in DOMAIN e THEN <<" ">> \o e.name ELSE <<>>) \o <<":", " ">>
           \o RenderEndpoint(e.from) \o <<" ">> \o e.refType \o <<" ">> \o RenderEndpoint(e.to)
           \o (IF "settings" \in DOMAIN e
               THEN <<" ", "[">>
                      \o Commas([i \in DOMAIN e.settings |-> RenderRefSetting(e.settings[i])])
                      \o <<"]">>
               ELSE <<>>)
    [] e.kind = "junk" -> e.text

(* elements are written one per line *)
RECURSIVE Lines(_)
Lines(qs) ==
  IF qs = <<>> THEN <<>>
  ELSE IF Len(qs) = 1 THEN qs[1]
  ELSE Head(qs) \o <<"\n">> \o Lines(Tail(qs))

Render(desc) == Lines([i \in DOMAIN desc |-> RenderElement(desc[i])])

(* Names and words the caller writes *)
N_t == <<"t">>
N_u == <<"u">>
N_p == <<"p">>
N_a == <<"a">>
N_b == <<"b">>
N_assets == <<"a", "s", "s", "e", "t", "s">>
N_int == <<"i", "n", "t">>
N_name == <<"n", "a", "m", "e">>
N_type == <<"t", "y", "p", "e">>
N_note == <<"n", "o", "t", "e">>
N_table == <<"t", "a", "b", "l", "e">>
C_Project == <<"P", "r", "o", "j", "e", "c", "t">>
C_Table == <<"T", "a", "b", "l", "e">>
C_TablePartial == <<"T", "a", "b", "l", "e", "P", "a", "r", "t", "i", "a", "l">>
C_TableGroup == <<"T", "a", "b", "l", "e", "G", "r", "o", "u", "p">>
C_Enum == <<"E", "n", "u", "m">>
C_Ref == <<"R", "e", "f">>

Col(name, type, settings) ==
  [kind |-> "column", name |-> name, type |-> type, settings |-> settings]

(* Top-level elements of every kind, with plain bodies *)
TopNames == {N_t, N_assets}

ProjectPropLists ==
  {<<>>, <<[key |-> N_note, text |-> N_u]>>, <<[key |-> N_name, text |-> N_u]>>,
   <<[key |-> N_type, text |-> N_table]>>, <<[key |-> N_type, text |-> N_u]>>}

GroupMemberLists == {<<>>, <<N_a, N_b>>}

TopElements ==
  {[kind |-> "project", kw |-> C_Project, name |-> N_p, props |-> ps] : ps \in ProjectPropLists}
  \cup {[kind |-> "table", kw |-> C_Table, name |-> n, body |-> <<Col(N_a, N_int, <<>>)>>] :
          n \in TopNames}
  \cup {[kind |-> "tablepartial", kw |-> C_TablePartial, name |-> n,
         body |-> <<Col(N_a, N_int, <<>>)>>] : n \in TopNames}
  \cup {[kind |-> "tablegroup", kw |-> C_TableGroup, name |-> n, members |-> ms] :
          n \in TopNames, ms \in GroupMemberLists}
  \cup {[kind |-> "enum", kw |-> C_Enum, name |-> n, members |-> <<N_a>>] : n \in {N_t}}
  \cup {[kind |-> "ref", kw |-> C_Ref, from |-> [table |-> N_t, column |-> N_a],
         refType |-> <<">">>, to |-> [table |-> N_u, column |-> N_b]]}

(* Texts the grammar rejects: a stray brace, an unknown column setting *)
JunkElements ==
  {[kind |-> "junk", text |-> <<"}">>],
   [kind |-> "junk", text |-> C_Table \o <<" ", "t", " ", "{", " ", "a", " ", "i", "n", "t", " ",
                                           "[", "b", "o", "g", "u", "s", "]", " ", "}">>]}

MaxElements == 2

SeqsUpTo(S, n) == UNION {[1..k -> S] : k \in 0..n}

(* up to MaxElements elements, of which only the last may be junk *)
Descs ==
  SeqsUpTo(TopElements, MaxElements)
  \cup {Append(d, j) : d \in SeqsUpTo(TopElements, MaxElements - 1), j \in JunkElements}

(***************************************************************************)
(* The state machine: one Parser, one text, calls of parse and validate    *)
(***************************************************************************)
None == [kind |-> "none"]

CallerTypeMappings == {EmptyObject}

(* The offsets (0-based) the matching engine can report for a text that
   does not match: it reports the rightmost position at which it failed,
   which is at or after the position where the end of the input was
   expected once the last Element had matched. *)
FailureOffsets(dbml) == (skipSpaces(dbml, Apply("Schema", dbml, 1).pos) - 1) .. Len(dbml)

(* new Parser(options) for the caller's options, an object that may leave
   typeMappings and strict out, and a text to hand to it *)
InitOptions(descs, callerOptions) ==
  /\ options \in callerOptions
  /\ typeMappings = Parser_constructor(IF "typeMappings" \in DOMAIN options
                                       THEN options.typeMappings ELSE EmptyObject)
  /\ strict = Parser_strict(options)
  /\ written \in descs
  /\ input = Render(written)
  /\ failOffset \in IF match(input).ok THEN {0} ELSE FailureOffsets(input)
  /\ parsed = None
  /\ validated = None
  /\ formatted = None
  /\ again = None

InitWith(descs, mappings) == InitOptions(descs, {[typeMappings |-> o] : o \in mappings})

Init == InitWith(Descs, CallerTypeMappings)

Parse ==
  /\ parsed' = parse(typeMappings, input, failOffset)
  /\ UNCHANGED <<options, typeMappings, strict, written, input, failOffset, validated,
               formatted, again>>

Validate ==
  /\ validated' = validate(input, failOffset)
  /\ UNCHANGED <<options, typeMappings, strict, written, input, failOffset, parsed,
               formatted, again>>

Next == Parse \/ Validate

(* the caller asks the ParseError that parse threw for its formatted message *)
Format ==
  /\ parsed # None
  /\ parsed.kind = "throw"
  /\ formatted' = getFormattedMessage(parsed.error, input)
  /\ UNCHANGED <<options, typeMappings, strict, written, input, failOffset, parsed, validated,
               again>>

NextFormat == Parse \/ Validate \/ Format

Spec == Init /\ [][Next]_vars

(***************************************************************************)
(* What was written, and what the caller observes                          *)
(***************************************************************************)
Returned == parsed.kind = "return"
Doc == parsed.value

(* the names of the written elements of a kind, in source order *)
RECURSIVE NamesOf(_, _)
NamesOf(desc, kind) ==
  IF desc = <<>> THEN <<>>
  ELSE (IF Head(desc).kind = kind THEN <<Str(Join(Head(desc).name))>> ELSE <<>>)
         \o NamesOf(Tail(desc), kind)

NameFields(entries) == [i \in DOMAIN entries |-> entries[i].name]

Occurrences(q, x) == Cardinality({i \in DOMAIN q : q[i] = x})

HasKind(desc, kind) == \E i \in DOMAIN desc : desc[i].kind = kind

(* the text matches the grammar: nothing unparsable was written *)
WellFormed(desc) == ~HasKind(desc, "junk")

(* Table.columns and Table.elements as the caller reads them *)
ColumnsOf(t) == [i \in DOMAIN t.columns |-> t.objs[t.columns[i]]]

ElementsOf(t) ==
  [i \in DOMAIN t.elements |->
     IF t.elements[i].type = "column"
     THEN [type |-> "column", column |-> t.objs[t.elements[i].column]]
     ELSE t.elements[i]]

(***************************************************************************)
(* C2: a top-level `tablepartial N { ... }` adds exactly one TablePartial  *)
(* named N to Document.partials and nothing to Document.tables, and        *)
(* `tablegroup N { ... }` adds exactly one group named N to                *)
(* Document.tableGroups and nothing to Document.tables, for every legal    *)
(* name N.  (Stated for texts without a Project element.)                  *)
(***************************************************************************)
C2_OrderedChoiceNeverMisclassifies ==
  (Returned /\ ~HasKind(written, "project")) =>
     /\ \A n \in {Str(Join(m)) : m \in TopNames} :
          /\ Occurrences(NameFields(Doc.partials), n)
               = Occurrences(NamesOf(written, "tablepartial"), n)
          /\ Occurrences(NameFields(Doc.tableGroups), n)
               = Occurrences(NamesOf(written, "tablegroup"), n)
     /\ Len(Doc.tables) = Len(NamesOf(written, "table"))

(***************************************************************************)
(* C3: after a successful parse each collection of the Document holds one  *)
(* entry per top-level element of its kind, in source order, duplicates    *)
(* kept, and every Project element is reflected, whatever its body holds.  *)
(* (Stated for texts in which no name begins with "as".)                   *)
(***************************************************************************)
NoAsName(desc) == \A i \in DOMAIN desc : "name" \in DOMAIN desc[i] => desc[i].name # N_assets

C3_EveryElementReflectedInOrder ==
  (Returned /\ NoAsName(written)) =>
     /\ NameFields(Doc.tables) = NamesOf(written, "table")
     /\ NameFields(Doc.partials) = NamesOf(written, "tablepartial")
     /\ NameFields(Doc.tableGroups) = NamesOf(written, "tablegroup")
     /\ NameFields(Doc.enums) = NamesOf(written, "enum")
     /\ Len(Doc.refs) = Cardinality({i \in DOMAIN written : written[i].kind = "ref"})
     /\ HasKind(written, "project") => Doc.project # Undefined

(***************************************************************************)
(* C4: with a Project element `project P { ... }` Document.name and        *)
(* Document.project.name are P whatever properties the body lists, and     *)
(* each property key: value is field key of Document.project; without a    *)
(* Project element Document.name is "database" and project is unset.       *)
(***************************************************************************)
TheProject(desc) == desc[CHOOSE i \in DOMAIN desc : desc[i].kind = "project"]

C4_ProjectSetsDocumentName ==
  Returned =>
     /\ ~HasKind(written, "project") =>
          Doc.name = Str("database") /\ Doc.project = Undefined
     /\ Len(NamesOf(written, "project")) = 1 =>
          LET e == TheProject(written) IN
          /\ Doc.name = Str(Join(e.name))
          /\ Doc.project # Undefined
          /\ Doc.project.name = Str(Join(e.name))
          /\ \A i \in DOMAIN e.props :
               Join(e.props[i].key) # "name" =>
                 /\ Join(e.props[i].key) \in DOMAIN Doc.project
                 /\ Doc.project[Join(e.props[i].key)] = Str(Join(e.props[i].text))

(***************************************************************************)
(* C7: parse either returns a complete Document or throws a ParseError     *)
(* carrying message, line and column; it throws no other kind of error.    *)
(***************************************************************************)
C7_ParseReturnsOrThrowsParseError ==
  parsed # None =>
     \/ Returned
     \/ /\ parsed.kind = "throw"
        /\ parsed.error.name = "ParseError"
        /\ {"message", "line", "column"} \subseteq DOMAIN parsed.error

(***************************************************************************)
(* C8: validate and parse agree on every text: valid is true exactly when  *)
(* parse returns a Document, and when valid is false the error string is   *)
(* the message of the ParseError parse throws.                             *)
(***************************************************************************)
C8_ValidateAgreesWithParse ==
  (parsed # None /\ validated # None) =>
     /\ validated.value.valid <=> Returned
     /\ ~validated.value.valid =>
          parsed.kind = "throw" /\ validated.value.error = parsed.error.message

(***************************************************************************)
(* C9: validate never throws; it returns {valid: true} without an error    *)
(* field when the text matches the grammar and {valid: false, error: the   *)
(* engine's message} otherwise, also where building the Document would     *)
(* fail: it runs neither the semantic actions nor the type mapping.        *)
(***************************************************************************)
C9_ValidateNeverThrows ==
  validated # None =>
     /\ validated.kind = "return"
     /\ WellFormed(written) => validated.value = [valid |-> TRUE]
     /\ ~WellFormed(written) =>
          validated.value = [valid |-> FALSE, error |-> EngineMessage(failOffset)]

C9_Witness ==
  /\ validated # None
  /\ validated.value.valid = FALSE
  /\ validated.value.error = EngineMessage(failOffset)
  /\ failOffset > 0
  /\ parsed = None

(***************************************************************************)
(* Texts of one table whose body interleaves columns, partial references   *)
(* and a note                                                              *)
(***************************************************************************)
N_q == <<"q">>
N_kinstant == <<"k", "i", "n", "s", "t", "a", "n", "t">>

BodyItems ==
  {Col(N_a, N_kinstant, <<>>), Col(N_b, N_int, <<[kind |-> "pk"]>>),
   [kind |-> "partialRef", name |-> N_p], [kind |-> "partialRef", name |-> N_q],
   [kind |-> "note", text |-> N_u]}

MaxBody == 3

TableDescs ==
  {<<[kind |-> "table", kw |-> C_Table, name |-> N_t, body |-> b]>> :
     b \in SeqsUpTo(BodyItems, MaxBody)}

InitTables == InitWith(TableDescs, CallerTypeMappings)

SpecTables == InitTables /\ [][Next]_vars

(* the columns and partial references of a written body: tag and name *)
RECURSIVE WrittenTags(_)
WrittenTags(body) ==
  IF body = <<>> THEN <<>>
  ELSE (IF Head(body).kind = "column" THEN <<<<"column", Join(Head(body).name)>>>>
        ELSE IF Head(body).kind = "partialRef"
        THEN <<<<"partialRef", Join(Head(body).name)>>>>
        ELSE <<>>)
         \o WrittenTags(Tail(body))

ElementTags(t) ==
  [i \in DOMAIN t.elements |->
     IF t.elements[i].type = "column"
     THEN <<"column", t.objs[t.elements[i].column].name>>
     ELSE <<"partialRef", t.elements[i].ref.name>>]

IsColumnEntry(e) == e.type = "column"

ColumnEntries(t) ==
  LET es == SelectSeq(ElementsOf(t), IsColumnEntry)
  IN [i \in DOMAIN es |-> es[i].column]

(***************************************************************************)
(* C1: for every table parse produces, Table.columns is the ordered        *)
(* sub-sequence of Table.elements tagged "column" (same columns, order and *)
(* content, the mapped type included), and Table.elements lists the        *)
(* columns and partial references of the body in source order.             *)
(***************************************************************************)
C1_ColumnsAreColumnElements ==
  Returned =>
    \A i \in DOMAIN Doc.tables :
       /\ ColumnsOf(Doc.tables[i]) = ColumnEntries(Doc.tables[i])
       /\ ElementTags(Doc.tables[i]) = WrittenTags(written[i].body)

C1_Witness ==
  /\ Returned
  /\ Len(Doc.tables) = 1
  /\ Len(Doc.tables[1].elements) = 3
  /\ ElementTags(Doc.tables[1]) = <<<<"column", "a">>, <<"partialRef", "p">>, <<"column", "b">>>>
  /\ ElementsOf(Doc.tables[1])[1].column.type = Str("timestamp with time zone")
  /\ Len(ColumnsOf(Doc.tables[1])) = 2

(***************************************************************************)
(* Texts of one column with a list of settings                             *)
(***************************************************************************)
N_x == <<"x">>

SettingChoices ==
  {[kind |-> k] : k \in {"pk", "primaryKey", "unique", "notNull", "null", "increment",
                         "identityAlways", "identityByDefault"}}
  \cup {[kind |-> k, text |-> N_x] :
          k \in {"generatedStored", "check", "note", "defaultString", "defaultExpression"}}
  \cup {[kind |-> "ref", refType |-> <<">">>, to |-> [table |-> N_u, column |-> N_b]]}

MaxSettings == 2

SettingsDescs ==
  {<<[kind |-> "table", kw |-> C_Table, name |-> N_t, body |-> <<Col(N_a, N_int, gs)>>]>> :
     gs \in SeqsUpTo(SettingChoices, MaxSettings)}

InitSettings == InitWith(SettingsDescs, CallerTypeMappings)

SpecSettings == InitSettings /\ [][Next]_vars

(* the fields one written setting stands for *)
Effect(g) ==
  CASE g.kind \in {"pk", "primaryKey"} -> [pk |-> TRUE]
    [] g.kind = "unique" -> [unique |-> TRUE]
    [] g.kind = "notNull" -> [notNull |-> TRUE]
    [] g.kind = "null" -> [notNull |-> FALSE]
    [] g.kind = "increment" -> [increment |-> TRUE]
    [] g.kind = "identityAlways" -> [identityGeneration |-> "always"]
    [] g.kind = "identityByDefault" -> [identityGeneration |-> "by default"]
    [] g.kind = "generatedStored" ->
         [generatedExpression |-> Join(g.text), generatedStored |-> TRUE]
    [] g.kind = "check" -> [check |-> Join(g.text)]
    [] g.kind = "defaultString" -> [default |-> Str(Join(g.text))]
    [] g.kind = "defaultExpression" ->
         [default |-> [type |-> "expression", value |-> Join(g.text)]]
    [] g.kind = "note" -> [note |-> Str(Join(g.text))]
    [] g.kind = "ref" ->
         [ref |-> [type |-> Join(g.refType),
                   to |-> [table |-> Join(g.to.table), column |-> Join(g.to.column)]]]

OptionalColumnFields ==
  {"pk", "unique", "notNull", "increment", "identityGeneration", "generatedExpression",
   "generatedStored", "check", "default", "note", "ref"}

Max(S) == CHOOSE m \in S : \A n \in S : n <= m

WrittenSettings == written[1].body[1].settings
TheColumn == ColumnsOf(Doc.tables[1])[1]

(***************************************************************************)
(* C10: column settings are folded in written order, a later setting       *)
(* overwriting an earlier one for the same field: every optional field of  *)
(* the Column is present exactly when a setting for it was written and     *)
(* holds the value of the last such setting; an unwritten field (notNull   *)
(* included) is absent, not false.                                         *)
(***************************************************************************)
C10_SettingsLastWins ==
  Returned =>
    /\ DOMAIN TheColumn \ {"name", "type"} \subseteq OptionalColumnFields
    /\ \A f \in OptionalColumnFields :
         LET setters == {i \in DOMAIN WrittenSettings : f \in DOMAIN Effect(WrittenSettings[i])}
         IN /\ f \in DOMAIN TheColumn <=> setters # {}
            /\ setters # {} => TheColumn[f] = Effect(WrittenSettings[Max(setters)])[f]

C10_Witness ==
  /\ Returned
  /\ WrittenSettings = <<[kind |-> "null"], [kind |-> "notNull"]>>
  /\ TheColumn.notNull = TRUE
  /\ "pk" \notin DOMAIN TheColumn

(***************************************************************************)
(* Texts of one table or one table partial whose columns have written      *)
(* types of every shape, parsed under several caller-supplied mappings     *)
(***************************************************************************)
N_text == <<"t", "e", "x", "t">>
N_kjson == <<"k", "j", "s", "o", "n">>
N_toString == <<"t", "o", "S", "t", "r", "i", "n", "g">>

WrittenTypes ==
  {N_kinstant, N_kinstant \o <<"[", "]">>, N_kinstant \o <<"(", "3", ")">>,
   N_text \o <<"[", "]">>, N_text, N_kjson, N_toString}

OptionsTypeMappings ==
  {EmptyObject, [kinstant |-> "timestamptz"], [text |-> ""], "text[]" :> "varchar[]"}

MaxColumns == 2

ColumnLists ==
  {[i \in DOMAIN ts |-> Col(N_a, ts[i], <<>>)] : ts \in SeqsUpTo(WrittenTypes, MaxColumns) \ {<<>>}}

TypesDescs ==
  {<<[kind |-> "table", kw |-> C_Table, name |-> N_t, body |-> b]>> : b \in ColumnLists}
  \cup {<<[kind |-> "tablepartial", kw |-> C_TablePartial, name |-> N_t, body |-> b]>> :
          b \in ColumnLists}

InitTypes == InitWith(TypesDescs, OptionsTypeMappings)

SpecTypes == InitTypes /\ [][Next]_vars

WrittenType(j) == Join(written[1].body[j].type)

(***************************************************************************)
(* C5: type mapping is by exact whole-string match: a table column with    *)
(* written type T has type M[T] when T is a key of the merged alias table  *)
(* M, whatever the mapped value, and the string T unchanged otherwise.     *)
(***************************************************************************)
C5_ExactWholeStringMapping ==
  (Returned /\ written[1].kind = "table") =>
    \A j \in DOMAIN written[1].body :
       ColumnsOf(Doc.tables[1])[j].type =
         IF WrittenType(j) \in DOMAIN typeMappings
         THEN Str(typeMappings[WrittenType(j)])
         ELSE Str(WrittenType(j))

(***************************************************************************)
(* C6: the Type Mapper is applied to every Column of the Document: in      *)
(* Table.columns, in Table.elements and in TablePartial.columns a column   *)
(* whose written type is a key of the merged alias table carries the       *)
(* mapped type.  (Stated for non-empty mapped values.)                     *)
(***************************************************************************)
Mapped(j) == WrittenType(j) \in DOMAIN typeMappings /\ typeMappings[WrittenType(j)] # ""

C6_MapperReachesEveryColumn ==
  Returned =>
    \A j \in DOMAIN written[1].body :
       Mapped(j) =>
         /\ written[1].kind = "table" =>
              /\ ColumnsOf(Doc.tables[1])[j].type = Str(typeMappings[WrittenType(j)])
              /\ ColumnEntries(Doc.tables[1])[j].type = Str(typeMappings[WrittenType(j)])
         /\ written[1].kind = "tablepartial" =>
              Doc.partials[1].columns[j].type = Str(typeMappings[WrittenType(j)])

(***************************************************************************)
(* Texts of one column with a default setting of every written form: each  *)
(* entry holds the characters written after `default:` and the value the   *)
(* form stands for                                                         *)
(***************************************************************************)
N_active == <<"a", "c", "t", "i", "v", "e">>
N_now == <<"n", "o", "w", "(", ")">>
N_true == <<"t", "r", "u", "e">>
N_false == <<"f", "a", "l", "s", "e">>
N_truex == <<"t", "r", "u", "e", "x">>
N_falsey == <<"F", "a", "l", "s", "e", "y">>

Num(neg, int, frac) == [num |-> [neg |-> neg, int |-> int, frac |-> frac]]

Expression(text) == [type |-> "expression", value |-> Join(text)]

WrittenDefaults ==
  {[text |-> Backticked(e), value |-> Expression(e)] : e \in {N_now, N_x, N_true, <<"1">>}}
  \cup {[text |-> Quoted(c), value |-> Str(Join(c))] : c \in {N_active, N_true, <<"1">>, <<>>}}
  \cup {[text |-> <<"\"">> \o c \o <<"\"">>, value |-> Str(Join(c))] : c \in {N_active, N_x}}
  \cup {[text |-> <<"0">>, value |-> Num(FALSE, 0, "")],
        [text |-> <<"1", "0", "0", ".", "5", "0">>, value |-> Num(FALSE, 100, "5")],
        [text |-> <<"-", "1">>, value |-> Num(TRUE, 1, "")],
        [text |-> <<"4", "2">>, value |-> Num(FALSE, 42, "")]}
  \cup {[text |-> N_true, value |-> Bool(TRUE)],
        [text |-> <<"T", "R", "U", "E">>, value |-> Bool(TRUE)],
        [text |-> <<"T", "r", "u", "e">>, value |-> Bool(TRUE)],
        [text |-> N_false, value |-> Bool(FALSE)],
        [text |-> <<"F", "A", "L", "S", "E">>, value |-> Bool(FALSE)]}
  \cup {[text |-> n, value |-> Str(Join(n))] :
          n \in {N_x, N_active, N_note, N_truex, N_falsey, <<"n", "u", "l", "l">>}}

DefaultSettings == {[kind |-> "default", text |-> d.text, value |-> d.value] : d \in WrittenDefaults}

(* the default setting alone, or after another setting *)
DefaultsDescs ==
  {<<[kind |-> "table", kw |-> C_Table, name |-> N_t,
      body |-> <<Col(N_a, N_int, pre \o <<d>>)>>]>> :
     d \in DefaultSettings, pre \in {<<>>, <<[kind |-> "notNull"]>>}}

InitDefaults == InitWith(DefaultsDescs, CallerTypeMappings)

SpecDefaults == InitDefaults /\ [][Next]_vars

WrittenDefault == WrittenSettings[Len(WrittenSettings)]

(***************************************************************************)
(* C11: a backtick-delimited default yields the tagged expression record   *)
(* with the text between the backticks; any other default yields the bare  *)
(* typed literal: a quoted string its content, a number the number, true   *)
(* and false in any letter case the boolean, a bare identifier its name as *)
(* a string.                                                               *)
(***************************************************************************)
C11_DefaultIsExpressionOrLiteral ==
  parsed # None =>
    /\ Returned
    /\ "default" \in DOMAIN TheColumn
    /\ TheColumn.default = WrittenDefault.value

(***************************************************************************)
(* Texts that use one word as a bare identifier: as a table name, a column *)
(* name, a type name, an enum value or a table group member                *)
(***************************************************************************)
W_project == <<"p", "r", "o", "j", "e", "c", "t">>
W_tablepartial == <<"t", "a", "b", "l", "e", "p", "a", "r", "t", "i", "a", "l">>
W_ref == <<"r", "e", "f">>
W_enum == <<"e", "n", "u", "m">>
W_tablegroup == <<"t", "a", "b", "l", "e", "g", "r", "o", "u", "p">>
W_indexes == <<"i", "n", "d", "e", "x", "e", "s">>
W_constraints == <<"c", "o", "n", "s", "t", "r", "a", "i", "n", "t", "s">>

(* the reserved words the specification lists *)
ReservedWords ==
  {W_project, N_table, W_tablepartial, W_ref, W_enum, W_tablegroup, W_indexes, W_constraints}

LowerCase(w) == [i \in DOMAIN w |-> toLowerCase(w[i])]

IsReservedWord(w) == LowerCase(w) \in ReservedWords

ProbeWords ==
  ReservedWords
  \cup {C_Table, C_TablePartial, <<"E", "N", "U", "M">>, <<"R", "e", "f">>}
  \cup {N_table \o <<"_">> \o N_name, W_ref \o <<"e", "r", "e", "n", "c", "e">>,
        W_enum \o <<"_", "v">>, W_project \o <<"s">>, W_indexes \o <<"2">>, N_x}

Probe(e, position, w) == e @@ [position |-> position, word |-> w]

WordDescs ==
  {<<Probe([kind |-> "table", kw |-> C_Table, name |-> w, body |-> <<Col(N_a, N_int, <<>>)>>],
           "tableName", w)>> : w \in ProbeWords}
  \cup {<<Probe([kind |-> "table", kw |-> C_Table, name |-> N_t, body |-> <<Col(w, N_int, <<>>)>>],
                "columnName", w)>> : w \in ProbeWords}
  \cup {<<Probe([kind |-> "table", kw |-> C_Table, name |-> N_t, body |-> <<Col(N_a, w, <<>>)>>],
                "typeName", w)>> : w \in ProbeWords}
  \cup {<<Probe([kind |-> "enum", kw |-> C_Enum, name |-> N_t, members |-> <<w>>],
                "enumValue", w)>> : w \in ProbeWords}
  \cup {<<Probe([kind |-> "tablegroup", kw |-> C_TableGroup, name |-> N_t, members |-> <<w>>],
                "groupMember", w)>> : w \in ProbeWords}

InitWords == InitWith(WordDescs, CallerTypeMappings)

SpecWords == InitWords /\ [][Next]_vars

(* the name the Document holds at the position the word was written in *)
NameAtProbe ==
  CASE written[1].position = "tableName" -> Doc.tables[1].name.str
    [] written[1].position = "columnName" -> ColumnsOf(Doc.tables[1])[1].name
    [] written[1].position = "typeName" -> ColumnsOf(Doc.tables[1])[1].type.str
    [] written[1].position = "enumValue" -> Doc.enums[1].values[1].name
    [] written[1].position = "groupMember" -> Doc.tableGroups[1].tables[1]

ThrewParseError == parsed.kind = "throw" /\ parsed.error.name = "ParseError"

(***************************************************************************)
(* C12: a text that uses one of the reserved words project, table,         *)
(* tablepartial, ref, enum, tablegroup, indexes, constraints, in any       *)
(* letter case, as a bare identifier is rejected by parse; a word that     *)
(* only starts with a reserved word is accepted as the identifier.         *)
(***************************************************************************)
C12_ReservedWordsRejected ==
  parsed # None =>
    IF IsReservedWord(written[1].word)
    THEN ThrewParseError
    ELSE Returned /\ NameAtProbe = Join(written[1].word)

(***************************************************************************)
(* Texts of one table whose columns are named by keywords outside the      *)
(* reserved set, with or without an indexes block over the same names      *)
(***************************************************************************)
W_where == <<"w", "h", "e", "r", "e">>
W_pk == <<"p", "k">>
W_unique == <<"u", "n", "i", "q", "u", "e">>
W_not == <<"n", "o", "t">>
W_null == <<"n", "u", "l", "l">>
W_check == <<"c", "h", "e", "c", "k">>
W_action == <<"a", "c", "t", "i", "o", "n">>
W_asc == <<"a", "s", "c">>
W_desc == <<"d", "e", "s", "c">>

KeywordNames ==
  {N_type, N_name, W_where, W_pk, W_unique, W_not, W_null, W_default, W_check, W_action,
   N_note, W_as, W_asc, W_desc}

MaxNames == 3

(* one column of any of the names, or up to MaxNames columns of the names
   type, name and action *)
NameLists ==
  {<<w>> : w \in KeywordNames}
  \cup (SeqsUpTo({N_type, N_name, W_action}, MaxNames) \ {<<>>})

TextColumns(names) == [i \in DOMAIN names |-> Col(names[i], N_text, <<>>)]

(* no indexes block, one single-column index per name, or one composite
   index over all the names *)
IndexLists(names) ==
  {<<>>,
   <<[kind |-> "indexes",
      indexes |-> [i \in DOMAIN names |-> [composite |-> FALSE, columns |-> <<names[i]>>]]]>>,
   <<[kind |-> "indexes", indexes |-> <<[composite |-> TRUE, columns |-> names]>>]>>}

NamesDescs ==
  UNION {{<<[kind |-> "table", kw |-> C_Table, name |-> N_t,
             body |-> TextColumns(names) \o ixs]>> : ixs \in IndexLists(names)} :
           names \in NameLists}

InitNames == InitWith(NamesDescs, CallerTypeMappings)

SpecNames == InitNames /\ [][Next]_vars

IsColumnItem(b) == b.kind = "column"

WrittenColumnNames ==
  LET cs == SelectSeq(written[1].body, IsColumnItem)
  IN [i \in DOMAIN cs |-> Join(cs[i].name)]

(* the index columns the written indexes block stands for *)
WrittenIndexes ==
  LET last == written[1].body[Len(written[1].body)]
  IN IF last.kind = "indexes"
     THEN [i \in DOMAIN last.indexes |->
             [columns |-> [j \in DOMAIN last.indexes[i].columns |->
                             [name |-> Join(last.indexes[i].columns[j])]]]]
     ELSE <<>>

(***************************************************************************)
(* C13: keyword-like words outside the reserved set are legal identifiers: *)
(* a table whose columns are named by such words (type, name, action, ...) *)
(* parses to exactly those columns, in order and with those names, and the *)
(* names can be used as index columns, single or composite.                *)
(***************************************************************************)
C13_KeywordsRemainIdentifiers ==
  parsed # None =>
    /\ Returned
    /\ Len(Doc.tables) = 1
    /\ NameFields(ColumnsOf(Doc.tables[1])) = WrittenColumnNames
    /\ Doc.tables[1].indexes = WrittenIndexes

C13_Witness ==
  /\ Returned
  /\ NameFields(ColumnsOf(Doc.tables[1])) = <<"type", "name", "action">>
  /\ Doc.tables[1].indexes =
       <<[columns |-> <<[name |-> "type"], [name |-> "name"], [name |-> "action"]>>]>>

(***************************************************************************)
(* Texts written as tokens, the keywords among them marked, and rendered   *)
(* with the keywords in a chosen letter case                               *)
(***************************************************************************)
K(w) == [w |-> w, keyword |-> TRUE]
I(w) == [w |-> w, keyword |-> FALSE]

CaseText_table ==
  <<K(<<"t", "a", "b", "l", "e">>), I(<<"X">>), I(<<"{">>), I(<<"i", "d">>),
    I(<<"i", "n", "t">>), I(<<"[">>), K(<<"p", "k">>), I(<<"]">>), I(<<"}">>)>>

(* one short text for every construct that has keywords; between them they
   use every keyword of the grammar *)
CaseTexts ==
  <<CaseText_table,
    (* table t as u { a int [ primary key ] } *)
    <<K(<<"t", "a", "b", "l", "e">>), I(<<"t">>), K(<<"a", "s">>), I(<<"u">>), I(<<"{">>),
      I(<<"a">>), I(<<"i", "n", "t">>), I(<<"[">>),
      K(<<"p", "r", "i", "m", "a", "r", "y">>), K(<<"k", "e", "y">>), I(<<"]">>),
      I(<<"}">>)>>,
    (* table t { a int [ not null , unique ] } *)
    <<K(<<"t", "a", "b", "l", "e">>), I(<<"t">>), I(<<"{">>), I(<<"a">>),
      I(<<"i", "n", "t">>), I(<<"[">>), K(<<"n", "o", "t">>), K(<<"n", "u", "l", "l">>),
      I(<<",">>), K(<<"u", "n", "i", "q", "u", "e">>), I(<<"]">>), I(<<"}">>)>>,
    (* table t { a int [ increment , null ] } *)
    <<K(<<"t", "a", "b", "l", "e">>), I(<<"t">>), I(<<"{">>), I(<<"a">>),
      I(<<"i", "n", "t">>), I(<<"[">>), K(<<"i", "n", "c", "r", "e", "m", "e", "n", "t">>),
      I(<<",">>), K(<<"n", "u", "l", "l">>), I(<<"]">>), I(<<"}">>)>>,
    (* table t { a int [ default : true ] } *)
    <<K(<<"t", "a", "b", "l", "e">>), I(<<"t">>), I(<<"{">>), I(<<"a">>),
      I(<<"i", "n", "t">>), I(<<"[">>), K(<<"d", "e", "f", "a", "u", "l", "t">>),
      I(<<":">>), K(<<"t", "r", "u", "e">>), I(<<"]">>), I(<<"}">>)>>,
    (* table t { a int [ default : false ] } *)
    <<K(<<"t", "a", "b", "l", "e">>), I(<<"t">>), I(<<"{">>), I(<<"a">>),
      I(<<"i", "n", "t">>), I(<<"[">>), K(<<"d", "e", "f", "a", "u", "l", "t">>),
      I(<<":">>), K(<<"f", "a", "l", "s", "e">>), I(<<"]">>), I(<<"}">>)>>,
    (* table t { a int [ note : 'Table' ] } *)
    <<K(<<"t", "a", "b", "l", "e">>), I(<<"t">>), I(<<"{">>), I(<<"a">>),
      I(<<"i", "n", "t">>), I(<<"[">>), K(<<"n", "o", "t", "e">>), I(<<":">>),
      I(<<"'", "T", "a", "b", "l", "e", "'">>), I(<<"]">>), I(<<"}">>)>>,
    (* table t { a int [ ref : > u.b ] } *)
    <<K(<<"t", "a", "b", "l", "e">>), I(<<"t">>), I(<<"{">>), I(<<"a">>),
      I(<<"i", "n", "t">>), I(<<"[">>), K(<<"r", "e", "f">>), I(<<":">>), I(<<">">>),
      I(<<"u", ".", "b">>), I(<<"]">>), I(<<"}">>)>>,
    (* table t { a int [ generated always as identity ] } *)
    <<K(<<"t", "a", "b", "l", "e">>), I(<<"t">>), I(<<"{">>), I(<<"a">>),
      I(<<"i", "n", "t">>), I(<<"[">>), K(<<"g", "e", "n", "e", "r", "a", "t", "e", "d">>),
      K(<<"a", "l", "w", "a", "y", "s">>), K(<<"a", "s">>),
      K(<<"i", "d", "e", "n", "t", "i", "t", "y">>), I(<<"]">>), I(<<"}">>)>>,
    (* table t { a int [ generated by default as identity ] } *)
    <<K(<<"t", "a", "b", "l", "e">>), I(<<"t">>), I(<<"{">>), I(<<"a">>),
      I(<<"i", "n", "t">>), I(<<"[">>), K(<<"g", "e", "n", "e", "r", "a", "t", "e", "d">>),
      K(<<"b", "y">>), K(<<"d", "e", "f", "a", "u", "l", "t">>), K(<<"a", "s">>),
      K(<<"i", "d", "e", "n", "t", "i", "t", "y">>), I(<<"]">>), I(<<"}">>)>>,
    (* table t { a int [ generated always as `x` stored ] } *)
    <<K(<<"t", "a", "b", "l", "e">>), I(<<"t">>), I(<<"{">>), I(<<"a">>),
      I(<<"i", "n", "t">>), I(<<"[">>), K(<<"g", "e", "n", "e", "r", "a", "t", "e", "d">>),
      K(<<"a", "l", "w", "a", "y", "s">>), K(<<"a", "s">>), I(<<backtick, "x", backtick>>),
      K(<<"s", "t", "o", "r", "e", "d">>), I(<<"]">>), I(<<"}">>)>>,
    (* table t { a int [ check `y` ] } *)
    <<K(<<"t", "a", "b", "l", "e">>), I(<<"t">>), I(<<"{">>), I(<<"a">>),
      I(<<"i", "n", "t">>), I(<<"[">>), K(<<"c", "h", "e", "c", "k">>),
      I(<<backtick, "y", backtick>>), I(<<"]">>), I(<<"}">>)>>,
    (* table t { a int note : 'n' } *)
    <<K(<<"t", "a", "b", "l", "e">>), I(<<"t">>), I(<<"{">>), I(<<"a">>),
      I(<<"i", "n", "t">>), K(<<"n", "o", "t", "e">>), I(<<":">>), I(<<"'", "n", "'">>),
      I(<<"}">>)>>,
    (* table t { a int headercolor : #aabbcc } *)
    <<K(<<"t", "a", "b", "l", "e">>), I(<<"t">>), I(<<"{">>), I(<<"a">>),
      I(<<"i", "n", "t">>), K(<<"h", "e", "a", "d", "e", "r", "c", "o", "l", "o", "r">>),
      I(<<":">>), I(<<"#", "a", "a", "b", "b", "c", "c">>), I(<<"}">>)>>,
    (* table t { a int indexes { ( a asc , a desc ) [ type : gin ] } } *)
    <<K(<<"t", "a", "b", "l", "e">>), I(<<"t">>), I(<<"{">>), I(<<"a">>),
      I(<<"i", "n", "t">>), K(<<"i", "n", "d", "e", "x", "e", "s">>), I(<<"{">>),
      I(<<"(">>), I(<<"a">>), K(<<"a", "s", "c">>), I(<<",">>), I(<<"a">>),
      K(<<"d", "e", "s", "c">>), I(<<")">>), I(<<"[">>), K(<<"t", "y", "p", "e">>),
      I(<<":">>), K(<<"g", "i", "n">>), I(<<"]">>), I(<<"}">>), I(<<"}">>)>>,
    (* table t { a int indexes { a [ unique , name : 'i' ] } } *)
    <<K(<<"t", "a", "b", "l", "e">>), I(<<"t">>), I(<<"{">>), I(<<"a">>),
      I(<<"i", "n", "t">>), K(<<"i", "n", "d", "e", "x", "e", "s">>), I(<<"{">>),
      I(<<"a">>), I(<<"[">>), K(<<"u", "n", "i", "q", "u", "e">>), I(<<",">>),
      K(<<"n", "a", "m", "e">>), I(<<":">>), I(<<"'", "i", "'">>), I(<<"]">>), I(<<"}">>),
      I(<<"}">>)>>,
    (* table t { a int indexes { a [ where : 'w' , pk ] } } *)
    <<K(<<"t", "a", "b", "l", "e">>), I(<<"t">>), I(<<"{">>), I(<<"a">>),
      I(<<"i", "n", "t">>), K(<<"i", "n", "d", "e", "x", "e", "s">>), I(<<"{">>),
      I(<<"a">>), I(<<"[">>), K(<<"w", "h", "e", "r", "e">>), I(<<":">>),
      I(<<"'", "w", "'">>), I(<<",">>), K(<<"p", "k">>), I(<<"]">>), I(<<"}">>),
      I(<<"}">>)>>,
    (* table t { a int indexes { a [ type : btree ] } } *)
    <<K(<<"t", "a", "b", "l", "e">>), I(<<"t">>), I(<<"{">>), I(<<"a">>),
      I(<<"i", "n", "t">>), K(<<"i", "n", "d", "e", "x", "e", "s">>), I(<<"{">>),
      I(<<"a">>), I(<<"[">>), K(<<"t", "y", "p", "e">>), I(<<":">>),
      K(<<"b", "t", "r", "e", "e">>), I(<<"]">>), I(<<"}">>), I(<<"}">>)>>,
    (* table t { a int indexes { a [ type : hash ] } } *)
    <<K(<<"t", "a", "b", "l", "e">>), I(<<"t">>), I(<<"{">>), I(<<"a">>),
      I(<<"i", "n", "t">>), K(<<"i", "n", "d", "e", "x", "e", "s">>), I(<<"{">>),
      I(<<"a">>), I(<<"[">>), K(<<"t", "y", "p", "e">>), I(<<":">>),
      K(<<"h", "a", "s", "h">>), I(<<"]">>), I(<<"}">>), I(<<"}">>)>>,
    (* table t { a int indexes { a [ type : gist ] } } *)
    <<K(<<"t", "a", "b", "l", "e">>), I(<<"t">>), I(<<"{">>), I(<<"a">>),
      I(<<"i", "n", "t">>), K(<<"i", "n", "d", "e", "x", "e", "s">>), I(<<"{">>),
      I(<<"a">>), I(<<"[">>), K(<<"t", "y", "p", "e">>), I(<<":">>),
      K(<<"g", "i", "s", "t">>), I(<<"]">>), I(<<"}">>), I(<<"}">>)>>,
    (* table t { a int indexes { a [ type : spgist ] } } *)
    <<K(<<"t", "a", "b", "l", "e">>), I(<<"t">>), I(<<"{">>), I(<<"a">>),
      I(<<"i", "n", "t">>), K(<<"i", "n", "d", "e", "x", "e", "s">>), I(<<"{">>),
      I(<<"a">>), I(<<"[">>), K(<<"t", "y", "p", "e">>), I(<<":">>),
      K(<<"s", "p", "g", "i", "s", "t">>), I(<<"]">>), I(<<"}">>), I(<<"}">>)>>,
    (* table t { a int indexes { a [ type : brin ] } } *)
    <<K(<<"t", "a", "b", "l", "e">>), I(<<"t">>), I(<<"{">>), I(<<"a">>),
      I(<<"i", "n", "t">>), K(<<"i", "n", "d", "e", "x", "e", "s">>), I(<<"{">>),
      I(<<"a">>), I(<<"[">>), K(<<"t", "y", "p", "e">>), I(<<":">>),
      K(<<"b", "r", "i", "n">>), I(<<"]">>), I(<<"}">>), I(<<"}">>)>>,
    (* table t { a int constraints { constraint c check `x` [ deferrable ] } } *)
    <<K(<<"t", "a", "b", "l", "e">>), I(<<"t">>), I(<<"{">>), I(<<"a">>),
      I(<<"i", "n", "t">>), K(<<"c", "o", "n", "s", "t", "r", "a", "i", "n", "t", "s">>),
      I(<<"{">>), K(<<"c", "o", "n", "s", "t", "r", "a", "i", "n", "t">>), I(<<"c">>),
      K(<<"c", "h", "e", "c", "k">>), I(<<backtick, "x", backtick>>), I(<<"[">>),
      K(<<"d", "e", "f", "e", "r", "r", "a", "b", "l", "e">>), I(<<"]">>), I(<<"}">>),
      I(<<"}">>)>>,
    (* table t { a int constraints { unique ( a ) [ not deferrable , initially immediate ] } } *)
    <<K(<<"t", "a", "b", "l", "e">>), I(<<"t">>), I(<<"{">>), I(<<"a">>),
      I(<<"i", "n", "t">>), K(<<"c", "o", "n", "s", "t", "r", "a", "i", "n", "t", "s">>),
      I(<<"{">>), K(<<"u", "n", "i", "q", "u", "e">>), I(<<"(">>), I(<<"a">>), I(<<")">>),
      I(<<"[">>), K(<<"n", "o", "t">>),
      K(<<"d", "e", "f", "e", "r", "r", "a", "b", "l", "e">>), I(<<",">>),
      K(<<"i", "n", "i", "t", "i", "a", "l", "l", "y">>),
      K(<<"i", "m", "m", "e", "d", "i", "a", "t", "e">>), I(<<"]">>), I(<<"}">>),
      I(<<"}">>)>>,
    (* table t { a int constraints { check `x` [ initially deferred ] } } *)
    <<K(<<"t", "a", "b", "l", "e">>), I(<<"t">>), I(<<"{">>), I(<<"a">>),
      I(<<"i", "n", "t">>), K(<<"c", "o", "n", "s", "t", "r", "a", "i", "n", "t", "s">>),
      I(<<"{">>), K(<<"c", "h", "e", "c", "k">>), I(<<backtick, "x", backtick>>),
      I(<<"[">>), K(<<"i", "n", "i", "t", "i", "a", "l", "l", "y">>),
      K(<<"d", "e", "f", "e", "r", "r", "e", "d">>), I(<<"]">>), I(<<"}">>), I(<<"}">>)>>,
    (* table t { a int constraints { primary key ( a ) } } *)
    <<K(<<"t", "a", "b", "l", "e">>), I(<<"t">>), I(<<"{">>), I(<<"a">>),
      I(<<"i", "n", "t">>), K(<<"c", "o", "n", "s", "t", "r", "a", "i", "n", "t", "s">>),
      I(<<"{">>), K(<<"p", "r", "i", "m", "a", "r", "y">>), K(<<"k", "e", "y">>),
      I(<<"(">>), I(<<"a">>), I(<<")">>), I(<<"}">>), I(<<"}">>)>>,
    (* table t { a int constraints { exclude using gist ( a with && ) } } *)
    <<K(<<"t", "a", "b", "l", "e">>), I(<<"t">>), I(<<"{">>), I(<<"a">>),
      I(<<"i", "n", "t">>), K(<<"c", "o", "n", "s", "t", "r", "a", "i", "n", "t", "s">>),
      I(<<"{">>), K(<<"e", "x", "c", "l", "u", "d", "e">>), K(<<"u", "s", "i", "n", "g">>),
      I(<<"g", "i", "s", "t">>), I(<<"(">>), I(<<"a">>), K(<<"w", "i", "t", "h">>),
      I(<<"&", "&">>), I(<<")">>), I(<<"}">>), I(<<"}">>)>>,
    (* ref r : t.a > u.b [ delete : cascade ] *)
    <<K(<<"r", "e", "f">>), I(<<"r">>), I(<<":">>), I(<<"t", ".", "a">>), I(<<">">>),
      I(<<"u", ".", "b">>), I(<<"[">>), K(<<"d", "e", "l", "e", "t", "e">>), I(<<":">>),
      K(<<"c", "a", "s", "c", "a", "d", "e">>), I(<<"]">>)>>,
    (* ref : t.a < u.b [ update : set null ] *)
    <<K(<<"r", "e", "f">>), I(<<":">>), I(<<"t", ".", "a">>), I(<<"<">>),
      I(<<"u", ".", "b">>), I(<<"[">>), K(<<"u", "p", "d", "a", "t", "e">>), I(<<":">>),
      K(<<"s", "e", "t">>), K(<<"n", "u", "l", "l">>), I(<<"]">>)>>,
    (* ref : t.a - u.b [ delete : no action ] *)
    <<K(<<"r", "e", "f">>), I(<<":">>), I(<<"t", ".", "a">>), I(<<"-">>),
      I(<<"u", ".", "b">>), I(<<"[">>), K(<<"d", "e", "l", "e", "t", "e">>), I(<<":">>),
      K(<<"n", "o">>), K(<<"a", "c", "t", "i", "o", "n">>), I(<<"]">>)>>,
    (* ref : t.a > u.b [ update : restrict ] *)
    <<K(<<"r", "e", "f">>), I(<<":">>), I(<<"t", ".", "a">>), I(<<">">>),
      I(<<"u", ".", "b">>), I(<<"[">>), K(<<"u", "p", "d", "a", "t", "e">>), I(<<":">>),
      K(<<"r", "e", "s", "t", "r", "i", "c", "t">>), I(<<"]">>)>>,
    (* ref : t.a > u.b [ delete : set default ] *)
    <<K(<<"r", "e", "f">>), I(<<":">>), I(<<"t", ".", "a">>), I(<<">">>),
      I(<<"u", ".", "b">>), I(<<"[">>), K(<<"d", "e", "l", "e", "t", "e">>), I(<<":">>),
      K(<<"s", "e", "t">>), K(<<"d", "e", "f", "a", "u", "l", "t">>), I(<<"]">>)>>,
    (* project p { note : 'x' } *)
    <<K(<<"p", "r", "o", "j", "e", "c", "t">>), I(<<"p">>), I(<<"{">>),
      I(<<"n", "o", "t", "e">>), I(<<":">>), I(<<"'", "x", "'">>), I(<<"}">>)>>,
    (* enum e { a [ note : 'x' ] b } *)
    <<K(<<"e", "n", "u", "m">>), I(<<"e">>), I(<<"{">>), I(<<"a">>), I(<<"[">>),
      K(<<"n", "o", "t", "e">>), I(<<":">>), I(<<"'", "x", "'">>), I(<<"]">>), I(<<"b">>),
      I(<<"}">>)>>,
    (* tablegroup g { t u } *)
    <<K(<<"t", "a", "b", "l", "e", "g", "r", "o", "u", "p">>), I(<<"g">>), I(<<"{">>),
      I(<<"t">>), I(<<"u">>), I(<<"}">>)>>,
    (* tablepartial p { a int [ pk ] } *)
    <<K(<<"t", "a", "b", "l", "e", "p", "a", "r", "t", "i", "a", "l">>), I(<<"p">>),
      I(<<"{">>), I(<<"a">>), I(<<"i", "n", "t">>), I(<<"[">>), K(<<"p", "k">>),
      I(<<"]">>), I(<<"}">>)>>>>

toUpperCase(c) ==
  IF c \in lower THEN CHOOSE u \in upper : UpperToLower[u] = c ELSE c

CaseStyles == <<"lower", "upper", "capital", "alternating">>

(* the word w written in a letter case *)
Cased(w, style) ==
  [i \in DOMAIN w |->
     CASE style = "lower" -> w[i]
       [] style = "upper" -> toUpperCase(w[i])
       [] style = "capital" -> IF i = 1 THEN toUpperCase(w[i]) ELSE w[i]
       [] style = "alternating" -> IF i % 2 = 0 THEN toUpperCase(w[i]) ELSE w[i]]

(* the tokens separated by spaces; with style "rotating" the i-th token, if
   a keyword, takes the styles in turn *)
RenderTokens(tokens, style) ==
  Spaced([i \in DOMAIN tokens |->
            IF tokens[i].keyword
            THEN Cased(tokens[i].w,
                       IF style = "rotating" THEN CaseStyles[(i % 4) + 1] ELSE style)
            ELSE tokens[i].w])

InitCase ==
  /\ options = EmptyObject
  /\ typeMappings = Parser_constructor(EmptyObject)
  /\ strict = Parser_strict(options)
  /\ \E i \in DOMAIN CaseTexts :
       \E st \in {"lower", "upper", "capital", "alternating", "rotating"} :
         written = [tokens |-> CaseTexts[i], style |-> st]
  /\ input = RenderTokens(written.tokens, written.style)
  /\ failOffset \in IF match(input).ok THEN {0} ELSE FailureOffsets(input)
  /\ parsed = None
  /\ validated = None
  /\ formatted = None
  /\ again = None

SpecCase == InitCase /\ [][Next]_vars

(***************************************************************************)
(* C14: keyword matching is case-insensitive: a valid text whose keywords  *)
(* are written in another letter case, identifiers and string contents     *)
(* untouched, parses to the same Document as the text with the keywords in *)
(* lower case.                                                             *)
(***************************************************************************)
C14_KeywordCaseIsIrrelevant ==
  parsed # None =>
    /\ Returned
    /\ parsed = parse(typeMappings, RenderTokens(written.tokens, "lower"), 0)

C14_Witness ==
  /\ Returned
  /\ written.tokens = CaseText_table
  /\ written.style = "alternating"
  /\ SubSeq(input, 1, 5) = <<"t", "A", "b", "L", "e">>
  /\ Doc.tables[1].name = Str("X")
  /\ ColumnsOf(Doc.tables[1])[1].pk = TRUE

(***************************************************************************)
(* Texts of one table that references partials, with TablePartial p        *)
(* defined before the table, after it, or not at all                       *)
(***************************************************************************)
N_c == <<"c">>

(* TablePartial p { c int [pk] indexes { c } constraints { unique (c) } } *)
ThePartial ==
  [kind |-> "tablepartial", kw |-> C_TablePartial, name |-> N_p,
   body |-> <<Col(N_c, N_int, <<[kind |-> "pk"]>>),
              [kind |-> "indexes", indexes |-> <<[composite |-> FALSE, columns |-> <<N_c>>]>>],
              [kind |-> "constraints", text |-> W_unique \o <<" ", "(", "c", ")">>]>>]

ReferencingItems ==
  {Col(N_a, N_int, <<>>), Col(N_b, N_int, <<[kind |-> "pk"]>>),
   [kind |-> "partialRef", name |-> N_p], [kind |-> "partialRef", name |-> N_q]}

ReferencingTable(body) == [kind |-> "table", kw |-> C_Table, name |-> N_t, body |-> body]

PartialsDescs ==
  UNION {{<<ReferencingTable(b)>>, <<ThePartial, ReferencingTable(b)>>,
          <<ReferencingTable(b), ThePartial>>} : b \in SeqsUpTo(ReferencingItems, MaxBody)}

InitPartials == InitWith(PartialsDescs, CallerTypeMappings)

SpecPartials == InitPartials /\ [][Next]_vars

WrittenTable == written[CHOOSE i \in DOMAIN written : written[i].kind = "table"]

IsPartialRefItem(b) == b.kind = "partialRef"

IsPartialRefEntry(e) == e.type = "partialRef"

(***************************************************************************)
(* C15: partial references are left unresolved: a table that references    *)
(* partials with ~name is accepted whether or not a TablePartial of that   *)
(* name is defined; its columns are the columns written in its own body    *)
(* (none when the body holds only references), it gets no indexes and no   *)
(* constraints from the partial, and each reference is recorded only as a  *)
(* partialRef entry of Table.elements, in source order.                    *)
(***************************************************************************)
C15_PartialReferencesUnresolved ==
  parsed # None =>
    /\ Returned
    /\ Len(Doc.tables) = 1
    /\ Len(Doc.partials) = Len(NamesOf(written, "tablepartial"))
    /\ LET cols == SelectSeq(WrittenTable.body, IsColumnItem)
           refs == SelectSeq(WrittenTable.body, IsPartialRefItem)
           tbl == Doc.tables[1]
       IN /\ [i \in DOMAIN tbl.columns |-> ColumnsOf(tbl)[i].name]
               = [i \in DOMAIN cols |-> Join(cols[i].name)]
          /\ tbl.indexes = <<>>
          /\ "constraints" \notin DOMAIN tbl
          /\ ElementTags(tbl) = WrittenTags(WrittenTable.body)
          /\ SelectSeq(tbl.elements, IsPartialRefEntry)
               = [i \in DOMAIN refs |->
                    [type |-> "partialRef", ref |-> [name |-> Join(refs[i].name)]]]

C15_Witness ==
  /\ Returned
  /\ written = <<ThePartial, ReferencingTable(<<[kind |-> "partialRef", name |-> N_p],
                                                [kind |-> "partialRef", name |-> N_q]>>)>>
  /\ Len(Doc.partials) = 1
  /\ Len(Doc.partials[1].columns) = 1
  /\ Doc.tables[1].columns = <<>>
  /\ Len(Doc.tables[1].elements) = 2

(***************************************************************************)
(* Parsers constructed with the caller's typeMappings, and tables whose    *)
(* column types are the default aliases, a caller's alias and a plain type *)
(***************************************************************************)
N_money == <<"m", "o", "n", "e", "y">>

CallerOptions ==
  {EmptyObject,
   [typeMappings |-> EmptyObject],
   [typeMappings |-> [kinstant |-> "timestamptz"]],
   [typeMappings |-> [kjson |-> "json"], strict |-> FALSE],
   [typeMappings |-> [kinstant |-> "timestamptz", kjson |-> "json"]],
   [typeMappings |-> [money |-> "numeric"]],
   [typeMappings |-> [kinstant |-> "timestamptz", money |-> "numeric"], strict |-> TRUE]}

AliasColumnLists ==
  {[i \in DOMAIN ts |-> Col(N_a, ts[i], <<>>)] :
     ts \in SeqsUpTo({N_kinstant, N_kjson, N_money, N_int}, MaxColumns) \ {<<>>}}

OptionsDescs ==
  {<<[kind |-> "table", kw |-> C_Table, name |-> N_t, body |-> b]>> : b \in AliasColumnLists}

InitCallerOptions == InitOptions(OptionsDescs, CallerOptions)

SpecOptions == InitCallerOptions /\ [][Next]_vars

(* the entries the caller passed *)
CallerEntries == IF "typeMappings" \in DOMAIN options THEN options.typeMappings ELSE EmptyObject

(* the alias the claim gives a type name: the caller's entry, else the
   built-in default, else none *)
ClaimedAlias(name) ==
  IF name \in DOMAIN CallerEntries THEN CallerEntries[name]
  ELSE IF name = "kinstant" THEN "timestamp with time zone"
  ELSE IF name = "kjson" THEN "jsonb"
  ELSE name

(***************************************************************************)
(* C16: the alias table of a Parser is the built-in defaults (kinstant ->  *)
(* timestamp with time zone, kjson -> jsonb) overlaid with the caller's    *)
(* typeMappings: its keys are the default keys and the caller's keys, a    *)
(* caller entry wins over a default, a default the caller does not mention *)
(* stays, and parse maps every column type through that table.             *)
(***************************************************************************)
C16_AliasTableIsDefaultsOverlaid ==
  /\ DOMAIN typeMappings = {"kinstant", "kjson"} \cup DOMAIN CallerEntries
  /\ \A k \in DOMAIN typeMappings : typeMappings[k] = ClaimedAlias(k)
  /\ parsed # None =>
       /\ Returned
       /\ LET cols == ColumnsOf(Doc.tables[1])
          IN /\ Len(cols) = Len(written[1].body)
             /\ \A i \in DOMAIN cols :
                  cols[i].type = Str(ClaimedAlias(Join(written[1].body[i].type)))

C16_Witness ==
  /\ Returned
  /\ options = [typeMappings |-> [kinstant |-> "timestamptz", money |-> "numeric"],
                strict |-> TRUE]
  /\ typeMappings = [kinstant |-> "timestamptz", kjson |-> "jsonb", money |-> "numeric"]
  /\ Len(Doc.tables[1].columns) = 2
  /\ ColumnsOf(Doc.tables[1])[1].type = Str("timestamptz")
  /\ ColumnsOf(Doc.tables[1])[2].type = Str("jsonb")

(***************************************************************************)
(* Texts of one table whose columns have array types, as the README's      *)
(* tags text[] and prices decimal(10,2)[]                                  *)
(***************************************************************************)
N_tags == <<"t", "a", "g", "s">>
N_decimal102 == <<"d", "e", "c", "i", "m", "a", "l", "(", "1", "0", ",", "2", ")">>
N_varchar3 == <<"v", "a", "r", "c", "h", "a", "r", "(", "3", ")">>
ArraySuffix == <<"[", "]">>

ArrayTypes ==
  {N_text \o ArraySuffix, N_int \o ArraySuffix, N_decimal102 \o ArraySuffix,
   N_varchar3 \o ArraySuffix, N_decimal102, N_int}

ArrayColumns ==
  {Col(N_tags, ty, <<>>) : ty \in ArrayTypes}
  \cup {Col(N_tags, ty, <<[kind |-> "pk"]>>) :
          ty \in {N_text \o ArraySuffix, N_decimal102 \o ArraySuffix}}

ArraysDescs ==
  {<<[kind |-> "table", kw |-> C_Table, name |-> N_t, body |-> b]>> :
     b \in SeqsUpTo(ArrayColumns, MaxColumns) \ {<<>>}}

InitArrays == InitWith(ArraysDescs, CallerTypeMappings)

SpecArrays == InitArrays /\ [][Next]_vars

(***************************************************************************)
(* C17: a column whose written type carries the array suffix [], after a   *)
(* bare base name or after a parameterized type, yields a Column whose     *)
(* type is the written type, the suffix included.                          *)
(***************************************************************************)
C17_ArraySuffixKept ==
  parsed # None =>
    /\ Returned
    /\ LET cols == ColumnsOf(Doc.tables[1])
       IN /\ Len(cols) = Len(written[1].body)
          /\ \A i \in DOMAIN cols : cols[i].type = Str(Join(written[1].body[i].type))

(***************************************************************************)
(* Parsers constructed with and without strict, given the short texts of   *)
(* every construct, standard ones and PostgreSQL extensions alike          *)
(***************************************************************************)
StrictOptions ==
  {EmptyObject, [strict |-> FALSE], [strict |-> TRUE],
   [strict |-> TRUE, typeMappings |-> EmptyObject]}

InitStrict ==
  /\ options \in StrictOptions
  /\ typeMappings = Parser_constructor(IF "typeMappings" \in DOMAIN options
                                       THEN options.typeMappings ELSE EmptyObject)
  /\ strict = Parser_strict(options)
  /\ \E i \in DOMAIN CaseTexts : written = [tokens |-> CaseTexts[i], style |-> "lower"]
  /\ input = RenderTokens(written.tokens, written.style)
  /\ failOffset \in IF match(input).ok THEN {0} ELSE FailureOffsets(input)
  /\ parsed = None
  /\ validated = None
  /\ formatted = None
  /\ again = None

SpecStrict == InitStrict /\ [][Next]_vars

(* the extensions the README names: a constraints block, generated
   columns, a check column setting and the index type gin *)
ExtensionKeywords == {"constraints", "generated", "check", "gin"}

UsesExtension(tokens) ==
  \E i \in DOMAIN tokens : tokens[i].keyword /\ Join(tokens[i].w) \in ExtensionKeywords

(***************************************************************************)
(* C18: a Parser constructed with strict: true rejects a text that uses a  *)
(* PostgreSQL extension, and the same text is accepted with strict: false  *)
(* (or strict left out).                                                   *)
(***************************************************************************)
C18_StrictRejectsExtensions ==
  (parsed # None /\ UsesExtension(written.tokens)) =>
    IF strict THEN parsed.kind = "throw" ELSE Returned

(***************************************************************************)
(* Texts of several lines that the grammar rejects at some line: valid     *)
(* elements, then a rejected one (on one line or on three), then possibly  *)
(* one more element; the caller parses and formats the error               *)
(***************************************************************************)
ALine == [kind |-> "table", kw |-> C_Table, name |-> N_t, body |-> <<Col(N_a, N_int, <<>>)>>]

RejectedElements ==
  {[kind |-> "junk", text |-> <<"}">>],
   [kind |-> "junk", text |-> C_Table \o <<" ", "t", " ", "{", "\n", " ", "a", " ", "i", "n", "t",
                                           " ", "[", "b", "o", "g", "u", "s", "]", "\n", "}">>]}

ErrorsDescs ==
  {d \o <<j>> \o e : d \in SeqsUpTo({ALine}, MaxElements), j \in RejectedElements,
                     e \in SeqsUpTo({ALine}, 1)}

InitErrors == InitWith(ErrorsDescs, CallerTypeMappings)

SpecErrors == InitErrors /\ [][NextFormat]_vars

(* the number of newline characters in the first o characters of the text *)
NewlinesBefore(o) == Cardinality({i \in 1..o : input[i] = "\n"})

(* the 0-based index of the last newline among the first o characters, -1
   when there is none *)
LastNewlineBefore(o) ==
  IF NewlinesBefore(o) = 0 THEN -1
  ELSE (CHOOSE i \in 1..o : input[i] = "\n" /\ \A j \in (i + 1)..o : input[j] # "\n") - 1

(* the position (1-based) of the k-th newline of the text *)
NewlineAt(k) == CHOOSE i \in 1..Len(input) : input[i] = "\n" /\ NewlinesBefore(i) = k

NumberOfLines == 1 + NewlinesBefore(Len(input))

(* line number l of the text, without its newline *)
LineText(l) ==
  SubSeq(input, IF l = 1 THEN 1 ELSE NewlineAt(l - 1) + 1,
                IF l = NumberOfLines THEN Len(input) ELSE NewlineAt(l) - 1)

(* a number below 100 in decimal *)
Decimal(n) ==
  IF n < 10 THEN <<Digits[n + 1]>> ELSE <<Digits[(n \div 10) + 1], Digits[(n % 10) + 1]>>

(***************************************************************************)
(* C19: for a parse failure at offset o, ParseError.line is 1 + the number *)
(* of newlines before o and ParseError.column is o - the index of the last *)
(* newline before o (-1 when none); so for every offset of the text the    *)
(* line is one of the text's lines and the column is within that line or   *)
(* just past it; getFormattedMessage gives the message, an empty line,     *)
(* `Line <line>, column <column>:`, the text of that line, and a caret     *)
(* after column - 1 spaces.                                                *)
(***************************************************************************)
C19_LineColumnAndFormattedMessage ==
  /\ \A o \in 0..Len(input) :
       /\ ParseError(input, o).line = 1 + NewlinesBefore(o)
       /\ ParseError(input, o).column = o - LastNewlineBefore(o)
       /\ ParseError(input, o).line \in 1..NumberOfLines
       /\ ParseError(input, o).column \in 1..(Len(LineText(ParseError(input, o).line)) + 1)
  /\ (parsed # None /\ parsed.kind = "throw") =>
       /\ parsed.error.line = 1 + NewlinesBefore(failOffset)
       /\ parsed.error.column = failOffset - LastNewlineBefore(failOffset)
  /\ formatted # None =>
       formatted = <<parsed.error.message, "\n", "\n", "L", "i", "n", "e", " ">>
                     \o Decimal(parsed.error.line)
                     \o <<",", " ", "c", "o", "l", "u", "m", "n", " ">>
                     \o Decimal(parsed.error.column) \o <<":", "\n">>
                     \o LineText(parsed.error.line) \o <<"\n">>
                     \o [i \in 1..(parsed.error.column - 1) |-> " "] \o <<"^">>

C19_Witness ==
  /\ formatted # None
  /\ parsed.error.line = 3
  /\ parsed.error.column = 12
  /\ NumberOfLines = 5
  /\ LineText(3) = <<" ", "a", " ", "i", "n", "t", " ", "[", "b", "o", "g", "u", "s", "]">>
  /\ SubSeq(formatted, Len(formatted) - 11, Len(formatted))
       = <<" ", " ", " ", " ", " ", " ", " ", " ", " ", " ", " ", "^">>

(***************************************************************************)
(* Texts of one column whose default is a string literal: single-, double- *)
(* or triple-quoted, or a backtick expression. A quoted string is written  *)
(* as a list of items, each a plain character or an escaped one.           *)
(***************************************************************************)
StringAlphabet == {"a", "n", "'", "\"", "\\"}

MaxChars == 2

Plain(c) == [c |-> c, esc |-> FALSE]
Escaped(c) == [c |-> c, esc |-> TRUE]

(* a plain character is any but the quote and the backslash; any character
   can be escaped *)
QuotedItems(q) ==
  {Plain(c) : c \in StringAlphabet \ {q, "\\"}} \cup {Escaped(c) : c \in StringAlphabet}

RECURSIVE ItemsText(_)
ItemsText(items) ==
  IF items = <<>> THEN <<>>
  ELSE (IF Head(items).esc THEN <<"\\", Head(items).c>> ELSE <<Head(items).c>>)
         \o ItemsText(Tail(items))

TripleQuote == <<"'", "'", "'">>

(* verbatim content: any characters, a newline too, as long as the closing
   delimiter is the first one after the opening one *)
TripleContents ==
  {c \in SeqsUpTo((StringAlphabet \ {"\""}) \cup {"\n"}, MaxChars + 1) :
     /\ \A i \in 1..(Len(c) - 2) : SubSeq(c, i, i + 2) # TripleQuote
     /\ c = <<>> \/ c[Len(c)] # "'"}

BacktickContents == SeqsUpTo(StringAlphabet, MaxChars)

WrittenStrings ==
  {[quote |-> q, items |-> items, text |-> <<q>> \o ItemsText(items) \o <<q>>] :
     q \in {"'"}, items \in SeqsUpTo(QuotedItems("'"), MaxChars)}
  \cup {[quote |-> q, items |-> items, text |-> <<q>> \o ItemsText(items) \o <<q>>] :
          q \in {"\""}, items \in SeqsUpTo(QuotedItems("\""), MaxChars)}
  \cup {[quote |-> "'''", items |-> [i \in DOMAIN c |-> Plain(c[i])],
         text |-> TripleQuote \o c \o TripleQuote] : c \in TripleContents}
  \cup {[quote |-> backtick, items |-> [i \in DOMAIN c |-> Plain(c[i])],
         text |-> Backticked(c)] : c \in BacktickContents}

StringsDescs ==
  {<<[kind |-> "table", kw |-> C_Table, name |-> N_t,
      body |-> <<Col(N_a, N_int,
                     <<[kind |-> "default", text |-> w.text, quote |-> w.quote,
                        items |-> w.items]>>)>>]>> : w \in WrittenStrings}

InitStrings == InitWith(StringsDescs, CallerTypeMappings)

SpecStrings == InitStrings /\ [][Next]_vars

WrittenString == written[1].body[1].settings[1]

(* the character the claim gives an item of a quoted string *)
ClaimedChar(item) ==
  IF ~item.esc THEN item.c
  ELSE IF item.c = "n" THEN "\n"
  ELSE IF item.c = "r" THEN "\r"
  ELSE IF item.c = "t" THEN "\t"
  ELSE item.c

RawChars(items) == [i \in DOMAIN items |-> items[i].c]

(***************************************************************************)
(* C20: string unescaping is total and character-wise: every single- or    *)
(* double-quoted string is accepted and its value has one character per    *)
(* item, the plain character itself or, for an escape, the quote, the      *)
(* backslash, newline / carriage return / tab for n / r / t, and otherwise *)
(* the escaped character itself; triple-quoted and backtick content is     *)
(* the written content, backslashes included.                              *)
(***************************************************************************)
C20_UnescapingIsCharacterWise ==
  parsed # None =>
    /\ Returned
    /\ "default" \in DOMAIN TheColumn
    /\ IF WrittenString.quote \in {"'", "\""}
       THEN /\ TheColumn.default
                 = Str(Join([i \in DOMAIN WrittenString.items |->
                               ClaimedChar(WrittenString.items[i])]))
            /\ Len(TheColumn.default.str) = Len(WrittenString.items)
       ELSE IF WrittenString.quote = "'''"
       THEN TheColumn.default = Str(Join(RawChars(WrittenString.items)))
       ELSE TheColumn.default = Expression(RawChars(WrittenString.items))

C20_Witness ==
  /\ Returned
  /\ WrittenString.quote = "\""
  /\ WrittenString.items = <<Escaped("'"), Escaped("n")>>
  /\ WrittenString.text = <<"\"", "\\", "'", "\\", "n", "\"">>
  /\ TheColumn.default = Str("'\n")

(***************************************************************************)
(* Texts written token by token, with one comment standing in one of the   *)
(* gaps between (before, after) the tokens and a space in the other gaps   *)
(***************************************************************************)
(* table t { a decimal ( 10 , 2 ) } *)
CommentText_params ==
  <<<<"t", "a", "b", "l", "e">>, <<"t">>, <<"{">>, <<"a">>,
    <<"d", "e", "c", "i", "m", "a", "l">>, <<"(">>, <<"1", "0">>, <<",">>, <<"2">>,
    <<")">>, <<"}">>>>

(* table t { a int [ pk , note : '/*x' ] } *)
CommentText_settings ==
  <<<<"t", "a", "b", "l", "e">>, <<"t">>, <<"{">>, <<"a">>, <<"i", "n", "t">>, <<"[">>,
    <<"p", "k">>, <<",">>, <<"n", "o", "t", "e">>, <<":">>, <<"'", "/", "*", "x", "'">>,
    <<"]">>, <<"}">>>>

(* table "a//b" { a int [ default : `/*y` ] } *)
CommentText_quoted ==
  <<<<"t", "a", "b", "l", "e">>, <<"\"", "a", "/", "/", "b", "\"">>, <<"{">>, <<"a">>,
    <<"i", "n", "t">>, <<"[">>, <<"d", "e", "f", "a", "u", "l", "t">>, <<":">>,
    <<backtick, "/", "*", "y", backtick>>, <<"]">>, <<"}">>>>

(* ref : t . a > u . b *)
CommentText_ref ==
  <<<<"r", "e", "f">>, <<":">>, <<"t">>, <<".">>, <<"a">>, <<">">>, <<"u">>, <<".">>,
    <<"b">>>>

(* enum e { a b } *)
CommentText_enum ==
  <<<<"e", "n", "u", "m">>, <<"e">>, <<"{">>, <<"a">>, <<"b">>, <<"}">>>>

(* table X { id int [ pk ] } *)
CommentText_table == [i \in DOMAIN CaseText_table |-> CaseText_table[i].w]

CommentTexts ==
  <<CommentText_table, CommentText_params, CommentText_settings, CommentText_quoted,
    CommentText_ref, CommentText_enum>>

LineComment == <<"/", "/", "z", "\n">>
LineCommentAtEnd == <<"/", "/", "z">>
BlockComment == <<"/", "*", "z", "*", "/">>
BlockCommentWithOpener == <<"/", "*", "z", "/", "*", "z", "*", "/">>

(* the comments that can stand in gap number at of n tokens: a line comment
   without its newline only after the last token *)
CommentsAt(at, n) ==
  {LineComment, BlockComment, BlockCommentWithOpener}
  \cup (IF at = n THEN {LineCommentAtEnd} ELSE {})

(* the tokens with gap number at (0 before the first token) filled by fill
   and every other gap by one space *)
RenderGaps(tokens, at, fill) ==
  (IF at = 0 THEN fill ELSE <<>>)
    \o Flatten([i \in DOMAIN tokens |-> tokens[i] \o (IF i = at THEN fill ELSE <<" ">>)])

InitComments ==
  /\ options = EmptyObject
  /\ typeMappings = Parser_constructor(EmptyObject)
  /\ strict = Parser_strict(options)
  /\ \E i \in DOMAIN CommentTexts :
       \E at \in 0..Len(CommentTexts[i]) :
         \E c \in CommentsAt(at, Len(CommentTexts[i])) :
           written = [tokens |-> CommentTexts[i], at |-> at, comment |-> c]
  /\ input = RenderGaps(written.tokens, written.at, written.comment)
  /\ failOffset \in IF match(input).ok THEN {0} ELSE FailureOffsets(input)
  /\ parsed = None
  /\ validated = None
  /\ formatted = None
  /\ again = None

SpecComments == InitComments /\ [][Next]_vars

(***************************************************************************)
(* C21: comments are skippable whitespace: a text with a line comment or a *)
(* block comment between two tokens parses to the same Document as the     *)
(* text with plain whitespace in its place, so no comment text reaches the *)
(* Document; a block comment ends at the first star-slash; and // or       *)
(* slash-star inside a quoted string, a quoted identifier or a backtick    *)
(* expression is content.                                                  *)
(***************************************************************************)
C21_CommentsAreWhitespace ==
  parsed # None =>
    /\ Returned
    /\ parsed = parse(typeMappings, RenderGaps(written.tokens, written.at, <<" ">>), 0)
    /\ written.tokens = CommentText_quoted => Doc.tables[1].name = Str("a//b")
    /\ written.tokens = CommentText_settings =>
         ColumnsOf(Doc.tables[1])[1].note = Str("/*x")

(***************************************************************************)
(* Repeated calls: after the first parse and validate of a text the caller *)
(* calls again, on the same Parser or on another Parser constructed from   *)
(* the same options, possibly after calls on other texts                   *)
(***************************************************************************)
MaxCalls == 3

RepeatOptions ==
  {EmptyObject, [typeMappings |-> [kinstant |-> "timestamptz"]],
   [typeMappings |-> [money |-> "numeric"], strict |-> TRUE]}

AliasLine ==
  [kind |-> "table", kw |-> C_Table, name |-> N_t, body |-> <<Col(N_a, N_kinstant, <<>>)>>]

RepeatDescs == {<<AliasLine>>, <<AliasLine, [kind |-> "junk", text |-> <<"}">>]>>}

(* texts of the calls made in between: one that parses, one that does not *)
OtherTexts == {Render(<<ALine>>), <<"}">>}

InitRepeat == InitOptions(RepeatDescs, RepeatOptions)

(* the texts a call is made with: the text under test, and the others *)
CallTexts ==
  {[dbml |-> input, failOffset |-> failOffset]}
    \cup UNION {{[dbml |-> t, failOffset |-> o] :
                   o \in IF match(t).ok THEN {0} ELSE FailureOffsets(t)} : t \in OtherTexts}

Calls == IF again = None THEN 0 ELSE again.calls

ThisParser == [typeMappings |-> typeMappings, strict |-> strict]

(* the Parser a call is made on: this one, or new Parser(options) *)
ParserOf(on) ==
  IF on = "this" THEN ThisParser
  ELSE [typeMappings |-> Parser_constructor(CallerEntries), strict |-> Parser_strict(options)]

(* the fields of this Parser after a call on the Parser named by on *)
FieldsAfter(on) == IF on = "this" THEN ParserAfterCall(ThisParser) ELSE ThisParser

(* One call of method: the first call with the text under test on this
   Parser is the one the caller keeps (result); every later call, and every
   call with another text or on another Parser, is recorded in again. *)
Record(method, first, c, on, result) ==
  /\ Calls < MaxCalls
  /\ IF first = None /\ c.dbml = input /\ on = "this"
     THEN /\ (IF method = "parse" THEN parsed' = result ELSE validated' = result)
          /\ (IF method = "parse" THEN UNCHANGED validated ELSE UNCHANGED parsed)
          /\ again' = [calls |-> Calls + 1, call |-> "first", on |-> on, result |-> None]
     ELSE /\ again' = [calls |-> Calls + 1,
                       call |-> IF c.dbml = input THEN method ELSE "earlier",
                       on |-> on, result |-> result]
          /\ UNCHANGED <<parsed, validated>>
  /\ typeMappings' = FieldsAfter(on).typeMappings
  /\ strict' = FieldsAfter(on).strict
  /\ UNCHANGED <<options, written, input, failOffset, formatted>>

ParseCall ==
  \E c \in CallTexts, on \in {"this", "other"} :
    Record("parse", parsed, c, on, parse(ParserOf(on).typeMappings, c.dbml, c.failOffset))

ValidateCall ==
  \E c \in CallTexts, on \in {"this", "other"} :
    Record("validate", validated, c, on, validate(c.dbml, c.failOffset))

NextRepeat == ParseCall \/ ValidateCall

SpecRepeat == InitRepeat /\ [][NextRepeat]_vars

N_fk == <<"f", "k">>
N_s == <<"s">>
W_delete == <<"d", "e", "l", "e", "t", "e">>
W_update == <<"u", "p", "d", "a", "t", "e">>
A_cascade == <<"c", "a", "s", "c", "a", "d", "e">>
A_restrict == <<"r", "e", "s", "t", "r", "i", "c", "t">>
A_setNull == <<"s", "e", "t", " ", "n", "u", "l", "l">>
A_setDefault == <<"s", "e", "t", " ", "d", "e", "f", "a", "u", "l", "t">>
A_noAction == <<"n", "o", " ", "a", "c", "t", "i", "o", "n">>

E_ta == [table |-> N_t, column |-> N_a]
E_ub == [table |-> N_u, column |-> N_b]

InlineRef(refType, to) == [kind |-> "ref", refType |-> refType, to |-> to]

RefElements ==
  {[kind |-> "ref", kw |-> C_Ref, from |-> E_ta, refType |-> <<">">>, to |-> E_ub],
   [kind |-> "ref", kw |-> C_Ref, name |-> N_fk, from |-> E_ta, refType |-> <<"<">>, to |-> E_ub,
    settings |-> <<[key |-> W_delete, action |-> A_cascade]>>],
   [kind |-> "ref", kw |-> C_Ref, from |-> [table |-> N_t, columns |-> <<N_a, N_b>>],
    refType |-> <<"<", ">">>, to |-> [table |-> N_u, columns |-> <<N_b>>],
    settings |-> <<[key |-> W_delete, action |-> A_noAction],
                   [key |-> W_update, action |-> A_setNull]>>],
   [kind |-> "ref", kw |-> C_Ref, name |-> N_t, from |-> [schema |-> N_s] @@ E_ub,
    refType |-> <<"-">>, to |-> [schema |-> N_s, table |-> N_t, columns |-> <<N_a, N_b>>],
    settings |-> <<[key |-> W_update, action |-> A_restrict],
                   [key |-> W_update, action |-> A_setDefault]>>]}

RefTables ==
  {[kind |-> "table", kw |-> C_Table, name |-> N_t,
    body |-> <<Col(N_a, N_int, <<InlineRef(<<">">>, E_ub)>>)>>],
   [kind |-> "table", kw |-> C_Table, name |-> N_u,
    body |-> <<Col(N_b, N_int, <<[kind |-> "pk"], InlineRef(<<"<">>, E_ta)>>),
               Col(N_a, N_int, <<InlineRef(<<"<", ">">>, [schema |-> N_s] @@ E_ta)>>)>>],
   [kind |-> "table", kw |-> C_Table, name |-> N_t,
    body |-> <<Col(N_a, N_int, <<InlineRef(<<">">>, E_ta),
                                 InlineRef(<<"-">>, [table |-> N_u, columns |-> <<N_b, N_a>>])>>),
               Col(N_b, N_int, <<>>)>>]}

RefDescs == SeqsUpTo(RefElements \cup RefTables, MaxElements) \ {<<>>}

InitRefs == InitWith(RefDescs, {EmptyObject})

SpecRefs == InitRefs /\ [][Next]_vars

(* the RefEndpoint a written endpoint stands for *)
EndpointOf(e) ==
  [k \in DOMAIN e |->
     IF k = "columns" THEN [i \in DOMAIN e.columns |-> Join(e.columns[i])] ELSE Join(e[k])]

RECURSIVE RefSettingsOf(_)
RefSettingsOf(gs) ==
  IF gs = <<>> THEN EmptyObject
  ELSE ObjectAssign(RefSettingsOf(SubSeq(gs, 1, Len(gs) - 1)),
                    IF gs[Len(gs)].key = W_delete
                    THEN [onDelete |-> Join(gs[Len(gs)].action)]
                    ELSE [onUpdate |-> Join(gs[Len(gs)].action)])

(* the fields a written Ref element stands for *)
RefOf(e) ==
  LET r0 == [from |-> EndpointOf(e.from), to |-> EndpointOf(e.to), refType |-> Join(e.refType)]
      r1 == IF "name" \in DOMAIN e THEN ObjectAssign(r0, [name |-> Str(Join(e.name))]) ELSE r0
  IN IF "settings" \in DOMAIN e THEN ObjectAssign(r1, RefSettingsOf(e.settings)) ELSE r1

WrittenOfKind(kind) == SelectSeq(written, LAMBDA e : e.kind = kind)

(* the inline ref settings of a written column: the last one counts *)
InlineRefsOf(col) == SelectSeq(col.settings, LAMBDA g : g.kind = "ref")

WithoutTag(r) == [k \in DOMAIN r \ {"type"} |-> r[k]]

(***************************************************************************)
(* C23: inline column references are recorded only on their column: a      *)
(* column setting ref: <reftype> <endpoint> sets Column.ref = {type, to}   *)
(* and adds nothing to Document.refs; Document.refs has exactly one entry  *)
(* per top-level Ref element, in source order, each with from, to, refType *)
(* and, only when written, name, onDelete, onUpdate.                       *)
(***************************************************************************)
C23_InlineRefsStayOnTheirColumn ==
  parsed # None =>
    /\ Returned
    /\ Len(Doc.refs) = Len(WrittenOfKind("ref"))
    /\ \A i \in DOMAIN Doc.refs : WithoutTag(Doc.refs[i]) = RefOf(WrittenOfKind("ref")[i])
    /\ Len(Doc.tables) = Len(WrittenOfKind("table"))
    /\ \A i \in DOMAIN Doc.tables :
         \A j \in DOMAIN WrittenOfKind("table")[i].body :
           LET col == WrittenOfKind("table")[i].body[j]
               ast == ColumnsOf(Doc.tables[i])[j]
           IN IF InlineRefsOf(col) = <<>> THEN "ref" \notin DOMAIN ast
              ELSE /\ "ref" \in DOMAIN ast
                   /\ ast.ref = [type |-> Join(InlineRefsOf(col)[Len(InlineRefsOf(col))].refType),
                                 to |-> EndpointOf(InlineRefsOf(col)[Len(InlineRefsOf(col))].to)]

C23_Witness ==
  /\ parsed # None
  /\ Returned
  /\ Len(written) = 2
  /\ written[1].kind = "table"
  /\ written[2].kind = "ref"
  /\ "name" \notin DOMAIN written[2]
  /\ Len(Doc.refs) = 1
  /\ "name" \notin DOMAIN Doc.refs[1]
  /\ "onDelete" \in DOMAIN Doc.refs[1]
  /\ "ref" \in DOMAIN ColumnsOf(Doc.tables[1])[1]

(***************************************************************************)
(* Index types: an indexes block with one index whose settings are         *)
(* type: X, for the built-in names in several letter cases and for other   *)
(* identifiers, some of which begin with a built-in name                   *)
(***************************************************************************)
BuiltinIndexTypes ==
  {<<"b", "t", "r", "e", "e">>, <<"h", "a", "s", "h">>, <<"g", "i", "n">>,
   <<"g", "i", "s", "t">>, <<"s", "p", "g", "i", "s", "t">>, <<"b", "r", "i", "n">>}

CustomIndexTypes ==
  {<<"r", "u", "m">>, <<"B", "l", "o", "o", "m">>, <<"g", "i">>, <<"i", "v", "f", "_", "2">>,
   <<"g", "i", "n", "x">>, <<"h", "a", "s", "h", "e", "d">>,
   <<"b", "t", "r", "e", "e", "_", "g", "i", "s", "t">>}

IndexTypeWords ==
  {Cased(w, st) : w \in BuiltinIndexTypes, st \in {"lower", "upper", "capital"}}
    \cup CustomIndexTypes

IndexTypeTable(composite, X) ==
  [kind |-> "table", kw |-> C_Table, name |-> N_t,
   body |-> <<Col(N_a, N_int, <<>>),
              [kind |-> "indexes",
               indexes |-> <<[composite |-> composite, columns |-> <<N_a>>,
                              settings |-> <<[kind |-> "type", text |-> X]>>]>>]>>]

IndexTypeDescs == {<<IndexTypeTable(c, X)>> : c \in BOOLEAN, X \in IndexTypeWords}

InitIndexTypes == InitWith(IndexTypeDescs, {EmptyObject})

SpecIndexTypes == InitIndexTypes /\ [][Next]_vars

WrittenIndexType == written[1].body[2].indexes[1].settings[1].text

(***************************************************************************)
(* C24: an index setting type: X is accepted for every identifier X: a     *)
(* built-in name (btree, hash, gin, gist, spgist, brin) in any letter case *)
(* yields that name in lowercase, and every other identifier, also one     *)
(* that begins with a built-in name, is accepted as a custom type and      *)
(* yields its own name in lowercase.                                       *)
(***************************************************************************)
C24_EveryIndexTypeNameIsAccepted ==
  parsed # None =>
    /\ Returned
    /\ Len(Doc.tables[1].indexes) = 1
    /\ "type" \in DOMAIN Doc.tables[1].indexes[1]
    /\ Doc.tables[1].indexes[1].type = LowerCaseJoin(WrittenIndexType)

(***************************************************************************)
(* Indexes blocks: a table whose indexes block lists up to MaxIndexes      *)
(* entries, parenthesised or bare, with and without sort keywords and      *)
(* settings                                                                *)
(***************************************************************************)
MaxIndexes == 2

IndexEntries ==
  {[composite |-> FALSE, columns |-> <<N_a>>],
   [composite |-> FALSE, columns |-> <<N_b>>, sorts |-> <<W_desc>>],
   [composite |-> TRUE, columns |-> <<N_a, N_b>>],
   [composite |-> TRUE, columns |-> <<N_b, N_a>>, sorts |-> <<W_asc, Cased(W_desc, "upper")>>,
    settings |-> <<[kind |-> "unique"], [kind |-> "name", text |-> <<"i">>]>>],
   [composite |-> FALSE, columns |-> <<N_b>>,
    settings |-> <<[kind |-> "type", text |-> <<"g", "i", "n">>],
                   [kind |-> "where", text |-> <<"w">>],
                   [kind |-> "type", text |-> <<"h", "a", "s", "h">>]>>],
   [composite |-> TRUE, columns |-> <<N_a>>, sorts |-> <<Cased(W_asc, "capital")>>,
    settings |-> <<[kind |-> "pk"]>>]}

IndexesTable(entries) ==
  [kind |-> "table", kw |-> C_Table, name |-> N_t,
   body |-> <<[kind |-> "indexes", indexes |-> entries]>>]

IndexesDescs == {<<IndexesTable(es)>> : es \in SeqsUpTo(IndexEntries, MaxIndexes)}

InitIndexes == InitWith(IndexesDescs, {EmptyObject})

SpecIndexes == InitIndexes /\ [][Next]_vars

WrittenEntries == written[1].body[1].indexes

RECURSIVE IndexSettingsOf(_)
IndexSettingsOf(gs) ==
  IF gs = <<>> THEN EmptyObject
  ELSE LET g == gs[Len(gs)]
       IN ObjectAssign(IndexSettingsOf(SubSeq(gs, 1, Len(gs) - 1)),
                       CASE g.kind = "type" -> [type |-> LowerCaseJoin(g.text)]
                         [] g.kind = "name" -> [name |-> Str(Join(g.text))]
                         [] g.kind = "where" -> [where |-> Str(Join(g.text))]
                         [] g.kind = "pk" -> [pk |-> TRUE]
                         [] g.kind = "unique" -> [unique |-> TRUE])

(* the Index a written entry stands for *)
IndexOf(ix) ==
  ObjectAssign(
    [columns |-> [i \in DOMAIN ix.columns |->
                    IF "sorts" \in DOMAIN ix /\ ix.sorts[i] # <<>>
                    THEN [name |-> Join(ix.columns[i]), sort |-> LowerCaseJoin(ix.sorts[i])]
                    ELSE [name |-> Join(ix.columns[i])]]],
    IF "settings" \in DOMAIN ix THEN IndexSettingsOf(ix.settings) ELSE EmptyObject)

(***************************************************************************)
(* C25: in an indexes block every written entry, a parenthesised column    *)
(* list or a single bare column name, each optionally followed by a        *)
(* settings list, yields exactly one Index, in source order, with the      *)
(* written columns in written order; an index column's sort is "asc" or    *)
(* "desc" exactly when that keyword follows the column name, in either     *)
(* form; the settings are overlaid in written order, the last one of a key *)
(* winning, and unique, pk, name, type and where are absent when not       *)
(* written.                                                                *)
(***************************************************************************)
C25_OneIndexPerEntry ==
  parsed # None =>
    /\ Returned
    /\ Doc.tables[1].indexes = [i \in DOMAIN WrittenEntries |-> IndexOf(WrittenEntries[i])]

(***************************************************************************)
(* Repeated body items: Table and TablePartial bodies in which an indexes  *)
(* block, a constraints block, a note or a header colour is written more   *)
(* than once, next to columns and partial references                       *)
(***************************************************************************)
MaxRepeat == 2

RepeatedKinds == {"indexes", "constraints", "note", "headercolor"}

RepeatItems ==
  {[kind |-> "indexes", indexes |-> <<[composite |-> FALSE, columns |-> <<N_a>>]>>],
   [kind |-> "indexes", indexes |-> <<[composite |-> TRUE, columns |-> <<N_a, N_b>>]>>],
   [kind |-> "constraints", text |-> <<"u", "n", "i", "q", "u", "e", " ", "(", "a", ")">>],
   [kind |-> "constraints", text |-> <<"c", "h", "e", "c", "k", " ">> \o Backticked(<<"x">>)],
   [kind |-> "note", text |-> <<"x">>],
   [kind |-> "note", text |-> <<"y">>],
   [kind |-> "headercolor", text |-> <<"#", "a", "a", "b", "b", "c", "c">>],
   [kind |-> "headercolor", text |-> <<"#", "0", "0", "0", "0", "0", "0">>]}

KeptItems == {Col(N_a, N_int, <<>>), [kind |-> "partialRef", name |-> N_p]}

(* two different items of one kind *)
RepeatPairs ==
  {pr \in RepeatItems \X RepeatItems : pr[1].kind = pr[2].kind /\ pr[1] # pr[2]}

(* every body of up to MaxRepeat items, and the bodies in which a column or
   partial reference stands between two items of one kind *)
RepeatBodies ==
  SeqsUpTo(RepeatItems \cup KeptItems, MaxRepeat)
    \cup {<<pr[1], k, pr[2]>> : pr \in RepeatPairs, k \in KeptItems}

(* TablePartial bodies: an item of each kind written twice, two columns *)
RepeatPartialBodies ==
  {<<pr[1], pr[2]>> : pr \in RepeatPairs}
    \cup {<<Col(N_a, N_int, <<>>), x, Col(N_b, N_int, <<>>)>> :
            x \in {i \in RepeatItems : i.kind = "note"}}

RepeatTable(body) == [kind |-> "table", kw |-> C_Table, name |-> N_t, body |-> body]

RepeatPartial(body) ==
  [kind |-> "tablepartial", kw |-> C_TablePartial, name |-> N_u, body |-> body]

RepeatBodyDescs ==
  {<<RepeatTable(b)>> : b \in RepeatBodies}
    \cup {<<RepeatPartial(b)>> : b \in RepeatPartialBodies}

InitRepeatedItems == InitWith(RepeatBodyDescs, {EmptyObject})

SpecRepeatedItems == InitRepeatedItems /\ [][Next]_vars

FieldOfKind ==
  [indexes |-> "indexes", constraints |-> "constraints", note |-> "note",
   headercolor |-> "headerColor"]

(* a field of an object, None when the object has no such field *)
FieldOrNone(obj, field) == IF field \in DOMAIN obj THEN obj[field] ELSE None

(* the one Table or TablePartial of a Document *)
OnlyTable(doc) == IF Len(doc.tables) = 1 THEN doc.tables[1] ELSE doc.partials[1]

(* the field of kind in the table that has the single body item alone *)
FieldAlone(element, item) ==
  FieldOrNone(OnlyTable(parse(typeMappings, Render(<<[element EXCEPT !.body = <<item>>]>>), 0).value),
              FieldOfKind[item.kind])

ItemsOfKind(kind) == SelectSeq(written[1].body, LAMBDA b : b.kind = kind)

(* each repeated kind holds what its last item alone gives, and every column
   and partial reference of the body is kept *)
LastOccurrenceWins ==
  /\ Len(Doc.tables) + Len(Doc.partials) = 1
  /\ \A kind \in RepeatedKinds :
       IF ItemsOfKind(kind) = <<>>
       THEN FieldOrNone(OnlyTable(Doc), FieldOfKind[kind])
              = (IF kind = "indexes" THEN <<>> ELSE None)
       ELSE FieldOrNone(OnlyTable(Doc), FieldOfKind[kind])
              = FieldAlone(written[1], ItemsOfKind(kind)[Len(ItemsOfKind(kind))])
  /\ Len(OnlyTable(Doc).columns) = Len(ItemsOfKind("column"))
  /\ written[1].kind = "table" =>
       Len(OnlyTable(Doc).elements) = Len(ItemsOfKind("column")) + Len(ItemsOfKind("partialRef"))

RefTypes == {"<>", ">", "<", "-"}

RefActions == {"cascade", "restrict", "set null", "set default", "no action"}

(* endpoint e has the shape of the written endpoint w *)
EndpointAsWritten(e, w) ==
  /\ "table" \in DOMAIN e
  /\ e.table = Join(w.table)
  /\ ("column" \in DOMAIN e) # ("columns" \in DOMAIN e)
  /\ ("columns" \in DOMAIN e) = ("columns" \in DOMAIN w)
  /\ "columns" \in DOMAIN e =>
       /\ Len(e.columns) = Len(w.columns)
       /\ \A i \in DOMAIN e.columns : e.columns[i] = Join(w.columns[i])
  /\ "column" \in DOMAIN e => e.column = Join(w.column)
  /\ ("schema" \in DOMAIN e) = ("schema" \in DOMAIN w)
  /\ "schema" \in DOMAIN e => e.schema = Join(w.schema)

(* the actions written for key in a settings list, in written order *)
ActionsFor(e, key) ==
  IF "settings" \in DOMAIN e
  THEN SelectSeq(e.settings, LAMBDA g : g.key = key)
  ELSE <<>>

ActionAsWritten(r, field, actions) ==
  IF actions = <<>> THEN field \notin DOMAIN r
  ELSE /\ field \in DOMAIN r
       /\ r[field] \in RefActions
       /\ r[field] = Join(actions[Len(actions)].action)

(***************************************************************************)
(* C27: every reference endpoint produced by parse, both ends of a         *)
(* top-level Ref and the target of an inline ref, has a table name and     *)
(* exactly one of column (table.col) or columns (table.(c1, c2, ...), in   *)
(* written order); schema is present exactly when the three-part form was  *)
(* written; refType is the written token among >, <, -, <> (<> never read  *)
(* as <); onDelete and onUpdate hold the written action among cascade,     *)
(* restrict, set null, set default, no action, the last one written        *)
(* winning, and are absent when not written.                               *)
(***************************************************************************)
C27_EndpointsAreWellFormed ==
  parsed # None =>
    /\ Returned
    /\ DOMAIN Doc.refs = DOMAIN WrittenOfKind("ref")
    /\ \A i \in DOMAIN Doc.refs :
         LET r == Doc.refs[i]
             w == WrittenOfKind("ref")[i]
         IN /\ EndpointAsWritten(r.from, w.from)
            /\ EndpointAsWritten(r.to, w.to)
            /\ r.refType \in RefTypes
            /\ r.refType = Join(w.refType)
            /\ ActionAsWritten(r, "onDelete", ActionsFor(w, W_delete))
            /\ ActionAsWritten(r, "onUpdate", ActionsFor(w, W_update))
    /\ DOMAIN Doc.tables = DOMAIN WrittenOfKind("table")
    /\ \A i \in DOMAIN Doc.tables :
         \A j \in DOMAIN WrittenOfKind("table")[i].body :
           LET inline == InlineRefsOf(WrittenOfKind("table")[i].body[j])
               ast == ColumnsOf(Doc.tables[i])[j]
           IN inline # <<>> =>
                /\ "ref" \in DOMAIN ast
                /\ EndpointAsWritten(ast.ref.to, inline[Len(inline)].to)
                /\ ast.ref.type \in RefTypes
                /\ ast.ref.type = Join(inline[Len(inline)].refType)

C27_Witness ==
  /\ parsed # None
  /\ Returned
  /\ Len(written) = 2
  /\ written[1].kind = "ref"
  /\ written[2].kind = "table"
  /\ Doc.refs[1].refType = "<>"
  /\ "columns" \in DOMAIN Doc.refs[1].from
  /\ DOMAIN Doc.refs[1] = {"type", "from", "to", "refType", "onDelete", "onUpdate"}
  /\ Doc.refs[1].onDelete = "no action"
  /\ Doc.refs[1].onUpdate = "set null"
  /\ Len(Doc.tables[1].columns) = 2
  /\ "ref" \in DOMAIN ColumnsOf(Doc.tables[1])[2]
  /\ ColumnsOf(Doc.tables[1])[2].ref.type = "<>"
  /\ "schema" \in DOMAIN ColumnsOf(Doc.tables[1])[2].ref.to

(***************************************************************************)
(* Constraints blocks: a table whose constraints block lists up to         *)
(* MaxConstraints entries of the four types, named or not, with and        *)
(* without settings                                                        *)
(***************************************************************************)
MaxConstraints == 2

W_gist == <<"g", "i", "s", "t">>
N_k == <<"k">>
S_deferrable == <<"d", "e", "f", "e", "r", "r", "a", "b", "l", "e">>
S_notDeferrable == <<"n", "o", "t", " ">> \o S_deferrable
S_initiallyDeferred ==
  <<"i", "n", "i", "t", "i", "a", "l", "l", "y", " ", "d", "e", "f", "e", "r", "r", "e", "d">>
S_initiallyImmediate ==
  <<"i", "n", "i", "t", "i", "a", "l", "l", "y", " ", "i", "m", "m", "e", "d", "i", "a", "t", "e">>

ConstraintEntries ==
  {[type |-> "check", text |-> <<"x", " ", ">", " ", "0">>],
   [type |-> "check", text |-> <<"x">>, name |-> N_k, settings |-> <<S_deferrable>>],
   [type |-> "unique", columns |-> <<N_a>>],
   [type |-> "unique", columns |-> <<N_a, N_b>>,
    settings |-> <<S_notDeferrable, S_initiallyDeferred>>],
   [type |-> "primary_key", columns |-> <<N_b, N_a>>, name |-> N_u,
    settings |-> <<S_initiallyDeferred, S_initiallyImmediate>>],
   [type |-> "exclude", using |-> W_gist, columns |-> <<N_a>>, withOperator |-> <<"&", "&">>],
   [type |-> "exclude", using |-> W_gist, columns |-> <<N_b>>, withOperator |-> <<"=">>,
    name |-> N_k, settings |-> <<S_deferrable, S_notDeferrable>>]}

RenderConstraintType(c) ==
  CASE c.type = "check" -> <<"c", "h", "e", "c", "k", " ">> \o Backticked(c.text)
    [] c.type = "unique" ->
         <<"u", "n", "i", "q", "u", "e", " ", "(">> \o Commas(c.columns) \o <<")">>
    [] c.type = "primary_key" ->
         <<"p", "r", "i", "m", "a", "r", "y", " ", "k", "e", "y", " ", "(">>
           \o Commas(c.columns) \o <<")">>
    [] c.type = "exclude" ->
         <<"e", "x", "c", "l", "u", "d", "e", " ", "u", "s", "i", "n", "g", " ">> \o c.using
           \o <<" ", "(">> \o c.columns[1] \o <<" ", "w", "i", "t", "h", " ">>
           \o c.withOperator \o <<")">>

RenderConstraint(c) ==
  (IF "name" \in DOMAIN c
   THEN <<"c", "o", "n", "s", "t", "r", "a", "i", "n", "t", " ">> \o c.name \o <<" ">>
   ELSE <<>>)
    \o RenderConstraintType(c)
    \o (IF "settings" \in DOMAIN c THEN <<" ", "[">> \o Commas(c.settings) \o <<"]">> ELSE <<>>)

(* the entries are kept in written beside the text of the block *)
ConstraintsTable(entries) ==
  [kind |-> "table", kw |-> C_Table, name |-> N_t,
   body |-> <<[kind |-> "constraints", entries |-> entries,
               text |-> Spaced([i \in DOMAIN entries |-> RenderConstraint(entries[i])])]>>]

ConstraintsDescs ==
  {<<ConstraintsTable(es)>> : es \in SeqsUpTo(ConstraintEntries, MaxConstraints)}

InitConstraints == InitWith(ConstraintsDescs, {EmptyObject})

SpecConstraints == InitConstraints /\ [][Next]_vars

WrittenConstraints == written[1].body[1].entries

(* the type tag and payload a written entry stands for *)
PayloadOf(c) ==
  CASE c.type = "check" -> [type |-> "check", expression |-> Join(c.text)]
    [] c.type \in {"unique", "primary_key"} ->
         [type |-> c.type, columns |-> [i \in DOMAIN c.columns |-> Join(c.columns[i])]]
    [] c.type = "exclude" ->
         [type |-> "exclude", using |-> Join(c.using), columns |-> <<Join(c.columns[1])>>,
          withOperator |-> Join(c.withOperator)]

RECURSIVE FlagsOf(_)
FlagsOf(gs) ==
  IF gs = <<>> THEN EmptyObject
  ELSE LET g == gs[Len(gs)]
       IN ObjectAssign(FlagsOf(SubSeq(gs, 1, Len(gs) - 1)),
                       CASE g = S_deferrable -> [deferrable |-> TRUE]
                         [] g = S_notDeferrable -> [deferrable |-> FALSE]
                         [] g = S_initiallyDeferred -> [initiallyDeferred |-> TRUE]
                         [] g = S_initiallyImmediate -> [initiallyDeferred |-> FALSE])

ConstraintOf(c) ==
  ObjectAssign(
    ObjectAssign(PayloadOf(c), IF "name" \in DOMAIN c THEN [name |-> Join(c.name)] ELSE EmptyObject),
    IF "settings" \in DOMAIN c THEN FlagsOf(c.settings) ELSE EmptyObject)

(***************************************************************************)
(* C28: each entry of a constraints block yields one Constraint, in source *)
(* order, whose type tag and payload follow the matched alternative (check *)
(* -> expression text without backticks; unique / primary key -> column    *)
(* names in written order; exclude -> using method, a one-element column   *)
(* list and the operator text), whose name is present exactly when a       *)
(* leading constraint <name> was written, and whose flags are overlaid in  *)
(* written order (deferrable / not deferrable -> deferrable true / false,  *)
(* initially deferred / immediate -> initiallyDeferred true / false), the  *)
(* last one winning, absent when not written; settings never change the    *)
(* type tag, payload or name.                                              *)
(***************************************************************************)
C28_OneConstraintPerEntry ==
  parsed # None =>
    /\ Returned
    /\ "constraints" \in DOMAIN Doc.tables[1]
    /\ Doc.tables[1].constraints
         = [i \in DOMAIN WrittenConstraints |-> ConstraintOf(WrittenConstraints[i])]

C28_Witness ==
  /\ parsed # None
  /\ Returned
  /\ Len(WrittenConstraints) = 2
  /\ Len(Doc.tables[1].constraints) = 2
  /\ Doc.tables[1].constraints[1]
       = [type |-> "exclude", using |-> "gist", columns |-> <<"b">>, withOperator |-> "=",
          name |-> "k", deferrable |-> FALSE]
  /\ DOMAIN Doc.tables[1].constraints[2] = {"type", "expression"}

(***************************************************************************)
(* Parameterized types: one column of type base(params), for parameter     *)
(* texts with commas, spaces and parentheses                               *)
(***************************************************************************)
ParameterizedTypes ==
  {[base |-> <<"n", "u", "m", "e", "r", "i", "c">>, params |-> <<"1", "0", ",", "2">>],
   [base |-> <<"v", "a", "r", "c", "h", "a", "r">>, params |-> <<"2", "5", "5">>],
   [base |-> <<"g", "e", "o", "m", "e", "t", "r", "y">>,
    params |-> <<"P", "o", "i", "n", "t", ",", " ", "4", "3", "2", "6">>],
   [base |-> <<"b", "i", "t">>, params |-> <<"a", " ", " ", "b">>],
   [base |-> <<"e">>, params |-> <<"'", "x", "'", ",", "[", "y", "]">>],
   [base |-> <<"t">>, params |-> <<"f", "(", "1", ")", ",", "2">>],
   [base |-> <<"t">>, params |-> <<"(", "1", ")">>],
   [base |-> <<"t">>, params |-> <<" ", "1", "0">>],
   [base |-> <<"t">>, params |-> <<"1", "0", " ">>]}

ParameterizedColumn(ty, settings) ==
  Col(N_a, ty.base \o <<"(">> \o ty.params \o <<")">>, settings)

(* the column alone, followed by a setting, or followed by another column *)
ParameterizedDescs ==
  UNION {{<<[kind |-> "table", kw |-> C_Table, name |-> N_t,
             body |-> <<ParameterizedColumn(ty, <<>>)>>, ty |-> ty]>>,
          <<[kind |-> "table", kw |-> C_Table, name |-> N_t,
             body |-> <<ParameterizedColumn(ty, <<[kind |-> "pk"]>>)>>, ty |-> ty]>>,
          <<[kind |-> "table", kw |-> C_Table, name |-> N_t,
             body |-> <<ParameterizedColumn(ty, <<>>), Col(N_b, N_int, <<>>)>>, ty |-> ty]>>} :
           ty \in ParameterizedTypes}

InitParameterized == InitWith(ParameterizedDescs, {EmptyObject})

SpecParameterized == InitParameterized /\ [][Next]_vars

(***************************************************************************)
(* C29: for a parameterized column type base(params), Column.type is       *)
(* exactly base + "(" + params + ")", params being the source text between *)
(* the opening parenthesis and its matching closing parenthesis, verbatim, *)
(* for every parameter text, including one with commas, spaces or nested   *)
(* parentheses (numeric(10,2), geometry(Point, 4326), t(f(1),2)).          *)
(***************************************************************************)
C29_ParametersAreVerbatim ==
  parsed # None =>
    /\ Returned
    /\ Len(Doc.tables) = 1
    /\ Len(Doc.tables[1].columns) = Len(written[1].body)
    /\ ColumnsOf(Doc.tables[1])[1].type
         = Str(Join(written[1].ty.base) \o "(" \o Join(written[1].ty.params) \o ")")

(***************************************************************************)
(* Field presence: one Table, with or without schema qualifier and alias,  *)
(* or one TablePartial, over bodies that hold or lack each kind of item    *)
(***************************************************************************)
P_column == Col(N_a, N_int, <<>>)
P_partialRef == [kind |-> "partialRef", name |-> N_p]
P_indexes == [kind |-> "indexes", indexes |-> <<[composite |-> FALSE, columns |-> <<N_a>>]>>]
P_constraints ==
  [kind |-> "constraints", text |-> <<"u", "n", "i", "q", "u", "e", " ", "(", "a", ")">>]
P_note == [kind |-> "note", text |-> <<"x">>]
P_headercolor == [kind |-> "headercolor", text |-> <<"#", "a", "a", "b", "b", "c", "c">>]

PresenceBodies ==
  {<<>>, <<P_column>>, <<P_partialRef>>, <<P_indexes>>, <<P_constraints>>, <<P_note>>,
   <<P_headercolor>>, <<P_column, P_indexes>>, <<P_note, P_headercolor>>,
   <<P_constraints, P_column>>}

PresencePartialBodies ==
  {<<>>, <<P_column>>, <<P_indexes>>, <<P_constraints>>, <<P_note>>, <<P_column, P_note>>}

(* the written header: name, schema.name, name as alias, schema.name as alias *)
PresenceHeaders ==
  {[name |-> N_t],
   [name |-> N_s \o <<".">> \o N_t, schema |-> N_s],
   [name |-> N_t \o <<" ", "a", "s", " ">> \o N_u, alias |-> N_u],
   [name |-> N_s \o <<".">> \o N_t \o <<" ", "a", "s", " ">> \o N_u, schema |-> N_s,
    alias |-> N_u]}

PresenceDescs ==
  {<<[kind |-> "table", kw |-> C_Table, body |-> b] @@ h>> :
     h \in PresenceHeaders, b \in PresenceBodies}
    \cup {<<[kind |-> "tablepartial", kw |-> C_TablePartial, name |-> n, body |-> b]>> :
            n \in {N_u, N_assets}, b \in PresencePartialBodies}

InitPresence == InitWith(PresenceDescs, {EmptyObject})

SpecPresence == InitPresence /\ [][Next]_vars

Written(kind) == ItemsOfKind(kind) # <<>>

(***************************************************************************)
(* C30: field presence on tables is fixed by what was written: every Table *)
(* and TablePartial returned by parse has columns and indexes as lists     *)
(* (empty when the body has no column or no indexes block), every Table    *)
(* also has elements as a list, whereas constraints, note, headerColor,    *)
(* alias and schema are absent unless the corresponding block, item, as    *)
(* clause or schema qualifier was written; a TablePartial never carries    *)
(* alias, schema or elements.                                              *)
(***************************************************************************)
C30_PresenceFollowsTheText ==
  parsed # None =>
    /\ Returned
    /\ Len(Doc.tables) = (IF written[1].kind = "table" THEN 1 ELSE 0)
    /\ Len(Doc.partials) = (IF written[1].kind = "tablepartial" THEN 1 ELSE 0)
    /\ Len(Doc.tables) + Len(Doc.partials) = 1 =>
         /\ {"columns", "indexes"} \subseteq DOMAIN OnlyTable(Doc)
         /\ Len(OnlyTable(Doc).columns) = Len(ItemsOfKind("column"))
         /\ ~Written("indexes") => OnlyTable(Doc).indexes = <<>>
         /\ ("constraints" \in DOMAIN OnlyTable(Doc)) = Written("constraints")
         /\ ("note" \in DOMAIN OnlyTable(Doc)) = Written("note")
         /\ ("headerColor" \in DOMAIN OnlyTable(Doc)) = Written("headercolor")
         /\ ("alias" \in DOMAIN OnlyTable(Doc)) = ("alias" \in DOMAIN written[1])
         /\ ("schema" \in DOMAIN OnlyTable(Doc)) = ("schema" \in DOMAIN written[1])
         /\ ("elements" \in DOMAIN OnlyTable(Doc)) = (written[1].kind = "table")
         /\ written[1].kind = "table" =>
              Len(OnlyTable(Doc).elements)
                = Len(ItemsOfKind("column")) + Len(ItemsOfKind("partialRef"))

====
